---------------------------- MODULE Spec2Model ----------------------------
(***************************************************************************)
(* A model of the SQL-generator core: CSVParser (src/js/csv-parser.js),    *)
(* FieldMapper and SQLGenerator (src/unnamed/part_002).                    *)
(*                                                                         *)
(* Strings are sequences of one-character strings, so that tokenizing,     *)
(* trimming and escaping are computed character by character as the code   *)
(* computes them.  Every public method is an action that draws its         *)
(* arguments from a small set and records the call and its outcome.        *)
(***************************************************************************)
EXTENDS Integers, Sequences, FiniteSets, TLC

VARIABLES
  lineCall,    \* the last call of a CSVParser line-level method, with its result
  parseCall,   \* the last call of CSVParser.parseCSVText, with its result
  fieldCall,   \* the last call of FieldMapper.analyzeField, with its result
  gen,         \* SQLGenerator.generateSQL: the call in progress or finished
  handler,     \* an UpdateOperationHandler: its fields, and the calls made on it
  wizard,      \* the popup's EnhancedSQLGenerator, its timer and its saved state
  background   \* the BackgroundService: chrome.storage.local and the handlers running

vars == <<lineCall, parseCall, fieldCall, gen, handler, wizard, background>>

(***************************************************************************)
(* Bounds of the model.                                                    *)
(***************************************************************************)
MaxLineLen == 4      \* longest line handed to the line-level methods
MaxTextLen == 5      \* longest text handed to parseCSVText
MaxColumnLen == 4    \* most values in a column handed to analyzeField
MaxDataRows == 3     \* most rows of a table of mixed values
MaxGenRows == 5      \* most rows of a table generated under every option
MaxUpdateRows == 3   \* most rows of an UPDATE table
MaxBackSteps == 3    \* how far below zero a loop index is followed
MaxMarkedTextLen == 4 \* longest text parsed with and without a byte-order mark
MaxSetFieldCalls == 3 \* most calls that change the SET fields of a handler
MaxWhereConditions == 2 \* most WHERE conditions of a handler
MaxMappings == 3     \* most entries of the mappings handed to validateMappings
MaxHeaderLen == 4    \* longest short header, and longest tail of a long one
MaxMessages == 2     \* most messages the background service is sent

(***************************************************************************)
(* JavaScript values that are not strings.                                 *)
(***************************************************************************)
Null == "null"
Undefined == "undefined"

(***************************************************************************)
(* Strings.                                                                *)
(***************************************************************************)
DQ == "\""
SQ == "'"
TAB == "\t"
BACKTICK == "<60>"
LF == "\n"
CR == "\r"

\* All sequences over alphabet of length at most n.
SeqsUpTo(alphabet, n) == UNION {[1..k -> alphabet] : k \in 0..n}

\* The white space String.prototype.trim removes (of the characters modelled).
BOM == "<FEFF>"
WhiteSpace == {" ", TAB, LF, CR, BOM}

SetMin(S) == CHOOSE x \in S : \A y \in S : x <= y
SetMax(S) == CHOOSE x \in S : \A y \in S : x >= y

\* String.prototype.trim
Trim(s) ==
  LET keep == {i \in 1..Len(s) : s[i] \notin WhiteSpace}
  IN  IF keep = {} THEN <<>> ELSE SubSeq(s, SetMin(keep), SetMax(keep))

\* s.split(/\r?\n/): a CR right before a LF belongs to the separator.
RECURSIVE SplitLinesLoop(_, _, _, _)
SplitLinesLoop(text, i, cur, acc) ==
  IF i > Len(text) THEN Append(acc, cur)
  ELSE IF text[i] = LF
       THEN LET line == IF Len(cur) > 0 /\ cur[Len(cur)] = CR
                        THEN SubSeq(cur, 1, Len(cur) - 1) ELSE cur
            IN  SplitLinesLoop(text, i + 1, <<>>, Append(acc, line))
       ELSE SplitLinesLoop(text, i + 1, Append(cur, text[i]), acc)

SplitLines(text) == SplitLinesLoop(text, 1, <<>>, <<>>)

\* String(n) for a number n >= 0.
DigitChars == <<"0", "1", "2", "3", "4", "5", "6", "7", "8", "9">>

RECURSIVE NumToStr(_)
NumToStr(n) ==
  IF n < 10 THEN <<DigitChars[n + 1]>>
  ELSE NumToStr(n \div 10) \o <<DigitChars[(n % 10) + 1]>>

(***************************************************************************)
(* CSVParser                                                               *)
(***************************************************************************)
\* this.maxRows and this.maxFileSize of the constructor, scaled down so that
\* texts of the model can exceed them (the code has 100000 and 10 MB).
maxRows == 2
maxFileSize == 4

\* The for loop of parseCSVLine; i is the 1-based index of the next character.
RECURSIVE parseCSVLineLoop(_, _, _, _, _, _, _, _)
parseCSVLineLoop(line, delimiter, trimValues, i, result, current, inQuotes, quoteChar) ==
  LET field == IF trimValues THEN Trim(current) ELSE current
  IN
  IF i > Len(line) THEN Append(result, field)
  ELSE
    LET char == line[i]
        nextChar == IF i + 1 <= Len(line) THEN line[i + 1] ELSE Undefined
    IN
    IF char = DQ \/ char = SQ
    THEN IF ~inQuotes
         THEN parseCSVLineLoop(line, delimiter, trimValues, i + 1,
                               result, current, TRUE, char)
         ELSE IF char = quoteChar
              THEN IF nextChar = quoteChar
                   THEN parseCSVLineLoop(line, delimiter, trimValues, i + 2,
                                         result, Append(current, char), inQuotes, quoteChar)
                   ELSE parseCSVLineLoop(line, delimiter, trimValues, i + 1,
                                         result, current, FALSE, quoteChar)
              ELSE parseCSVLineLoop(line, delimiter, trimValues, i + 1,
                                    result, Append(current, char), inQuotes, quoteChar)
    ELSE IF char = delimiter /\ ~inQuotes
         THEN parseCSVLineLoop(line, delimiter, trimValues, i + 1,
                               Append(result, field), <<>>, inQuotes, quoteChar)
         ELSE parseCSVLineLoop(line, delimiter, trimValues, i + 1,
                               result, Append(current, char), inQuotes, quoteChar)

\* A tokenizer that ignores quotes: every delimiter separates.
RECURSIVE parseCSVLine_splitOnly(_, _, _)
parseCSVLine_splitOnly(line, delimiter, trimValues) ==
  LET hits == {i \in 1..Len(line) : line[i] = delimiter}
      fld(s) == IF trimValues THEN Trim(s) ELSE s
  IN  IF hits = {} THEN <<fld(line)>>
      ELSE LET k == SetMax(hits)
           IN  Append(parseCSVLine_splitOnly(SubSeq(line, 1, k - 1), delimiter, trimValues),
                      fld(SubSeq(line, k + 1, Len(line))))

parseCSVLine(line, delimiter, trimValues) ==
  parseCSVLineLoop(line, delimiter, trimValues, 1, <<>>, <<>>, FALSE, DQ)

\* The for loop of countDelimiterOccurrences.
RECURSIVE countDelimiterLoop(_, _, _, _, _, _)
countDelimiterLoop(line, delimiter, i, count, inQuotes, quoteChar) ==
  IF i > Len(line) THEN count
  ELSE
    LET char == line[i]
        nextChar == IF i + 1 <= Len(line) THEN line[i + 1] ELSE Undefined
    IN
    IF (char = DQ \/ char = SQ) /\ ~inQuotes
    THEN countDelimiterLoop(line, delimiter, i + 1, count, TRUE, char)
    ELSE IF char = quoteChar /\ inQuotes
         THEN IF nextChar = quoteChar
              THEN countDelimiterLoop(line, delimiter, i + 2, count, inQuotes, quoteChar)
              ELSE countDelimiterLoop(line, delimiter, i + 1, count, FALSE, quoteChar)
         ELSE IF char = delimiter /\ ~inQuotes
              THEN countDelimiterLoop(line, delimiter, i + 1, count + 1, inQuotes, quoteChar)
              ELSE countDelimiterLoop(line, delimiter, i + 1, count, inQuotes, quoteChar)

\* A counter that ignores quotes: every delimiter counts.
countDelimiterOccurrences_anywhere(line, delimiter) ==
  Cardinality({i \in 1..Len(line) : line[i] = delimiter})

countDelimiterOccurrences(line, delimiter) ==
  countDelimiterLoop(line, delimiter, 1, 0, FALSE, "")

\* const delimiters of detectDelimiter, in the order the loop visits them.
delimiters == <<",", ";", TAB, "|">>

\* The for-of loop of detectDelimiter; k indexes delimiters.
RECURSIVE detectDelimiterLoop(_, _, _, _)
detectDelimiterLoop(line, k, maxCount, bestDelimiter) ==
  IF k > Len(delimiters) THEN bestDelimiter
  ELSE LET count == countDelimiterOccurrences(line, delimiters[k])
       IN  IF count > maxCount
           THEN detectDelimiterLoop(line, k + 1, count, delimiters[k])
           ELSE detectDelimiterLoop(line, k + 1, maxCount, bestDelimiter)

\* A detector that lets a later candidate win a tie (>= for >).
detectDelimiter_lastWins(line) ==
  LET cnt(k) == countDelimiterOccurrences(line, delimiters[k])
      top == SetMax({cnt(k) : k \in 1..Len(delimiters)})
  IN  IF top = 0 THEN ","
      ELSE delimiters[SetMax({k \in 1..Len(delimiters) : cnt(k) = top})]

detectDelimiter(line) == detectDelimiterLoop(line, 1, 0, ",")

\* String.fromCharCode(0xef, 0xbb, 0xbf)
BOMBytes == <<"<EF>", "<BB>", "<BF>">>

\* A removeBOM that removes nothing.
removeBOM_none(text) == text

\* removeBOM: U+FEFF, or the three characters EF BB BF.
removeBOM(text) ==
  IF Len(text) >= 1 /\ text[1] = BOM THEN SubSeq(text, 2, Len(text))
  ELSE IF Len(text) >= 3 /\ SubSeq(text, 1, 3) = BOMBytes
       THEN SubSeq(text, 4, Len(text))
       ELSE text

\* What parseCSVText throws: the catch of line 128 wraps every error.
ParseFailure(message) == [ok |-> FALSE, error |-> message]

\* headers of a file without a header row: Column_1, Column_2, ...
DefaultHeader(index) == <<"C", "o", "l", "u", "m", "n", "_">> \o NumToStr(index)

\* while (rowData.length < headers.length) rowData.push('')
RECURSIVE PadRow(_, _)
PadRow(rowData, n) ==
  IF Len(rowData) < n THEN PadRow(Append(rowData, <<>>), n) ELSE rowData

\* The data-row loop of parseCSVText (lines 76-106); i is the 1-based index
\* of the next line.  parseCSVLine cannot throw, so the catch of line 102 is
\* never entered.
RECURSIVE ParseRowsLoop(_, _, _, _, _, _)
ParseRowsLoop(lines, i, rows, nHeaders, detectedDelimiter, options) ==
  IF i > Len(lines) THEN rows
  ELSE IF Len(rows) >= maxRows THEN rows
  ELSE
    LET rowData == parseCSVLine(lines[i], detectedDelimiter, options.trimValues)
    IN  IF options.skipEmptyLines /\ \A k \in 1..Len(rowData) : rowData[k] = <<>>
        THEN ParseRowsLoop(lines, i + 1, rows, nHeaders, detectedDelimiter, options)
        ELSE ParseRowsLoop(lines, i + 1, Append(rows, PadRow(rowData, nHeaders)),
                           nHeaders, detectedDelimiter, options)

\* lines.filter((line) => line.trim() !== '')
NonBlankLines(lines) == SelectSeq(lines, LAMBDA line : Trim(line) # <<>>)

\* A filter that keeps blank lines.
FilterLines_keepAll(lines, skipEmptyLines) == lines

FilterLines(lines, skipEmptyLines) ==
  IF skipEmptyLines THEN NonBlankLines(lines) ELSE lines

\* parseCSVText(csvText, options).  csvText is [isString, value]; options are
\* the destructured options with their defaults applied.
parseCSVText(csvText, options) ==
  IF ~csvText.isString \/ csvText.value = <<>>
  THEN ParseFailure("Invalid CSV text input")
  ELSE
    LET cleanedText == removeBOM(csvText.value)
        lines == FilterLines(SplitLines(cleanedText), options.skipEmptyLines)
    IN
    IF Len(lines) = 0 THEN ParseFailure("CSV file is empty")
    ELSE
      LET detectedDelimiter ==
            IF options.delimiter \notin {Null, ""} THEN options.delimiter
            ELSE detectDelimiter(lines[1])
          firstRow == parseCSVLine(lines[1], detectedDelimiter, options.trimValues)
          headers == IF options.hasHeader THEN firstRow
                     ELSE [k \in 1..Len(firstRow) |-> DefaultHeader(k)]
          dataStartIndex == IF options.hasHeader THEN 1 ELSE 0
      IN
      IF Len(headers) = 0 THEN ParseFailure("No headers found in CSV file")
      ELSE
        LET rows == ParseRowsLoop(lines, dataStartIndex + 1, <<>>, Len(headers),
                                  detectedDelimiter, options)
        IN  [ok |-> TRUE,
             headers |-> headers,
             rows |-> rows,
             totalRows |-> Len(rows),
             columns |-> Len(headers),
             delimiter |-> detectedDelimiter,
             metadata |->
               [originalLineCount |-> Len(lines),
                processedRows |-> Len(rows),
                skippedRows |-> Len(lines) - Len(rows)
                                - (IF options.hasHeader THEN 1 ELSE 0),
                hasHeader |-> options.hasHeader]]


(***************************************************************************)
(* FieldMapper                                                             *)
(***************************************************************************)
Digits == {"0", "1", "2", "3", "4", "5", "6", "7", "8", "9"}
UpperCase == <<"A", "B", "C", "D", "E", "F", "G", "H", "I", "J", "K", "L", "M",
               "N", "O", "P", "Q", "R", "S", "T", "U", "V", "W", "X", "Y", "Z">>
LowerCase == <<"a", "b", "c", "d", "e", "f", "g", "h", "i", "j", "k", "l", "m",
               "n", "o", "p", "q", "r", "s", "t", "u", "v", "w", "x", "y", "z">>

\* String.prototype.toLowerCase / toUpperCase
ToLowerChar(c) ==
  IF \E k \in 1..26 : UpperCase[k] = c
  THEN LowerCase[CHOOSE k \in 1..26 : UpperCase[k] = c] ELSE c
ToUpperChar(c) ==
  IF \E k \in 1..26 : LowerCase[k] = c
  THEN UpperCase[CHOOSE k \in 1..26 : LowerCase[k] = c] ELSE c
ToLowerCase(s) == [i \in 1..Len(s) |-> ToLowerChar(s[i])]
ToUpperCase(s) == [i \in 1..Len(s) |-> ToUpperChar(s[i])]

\* \d+
AllDigits(s) == Len(s) >= 1 /\ \A i \in 1..Len(s) : s[i] \in Digits
\* [^\s@]+
NoSpaceNoAt(s) ==
  Len(s) >= 1 /\ \A i \in 1..Len(s) : s[i] \notin WhiteSpace \cup {"@"}
\* -?
DropSign(s) == IF Len(s) >= 1 /\ s[1] = "-" THEN Tail(s) ELSE s

\* this.typePatterns, each as the test of a string against the pattern
\* integer: /^-?\d+$/
MatchInteger(s) == AllDigits(DropSign(s))
\* decimal: /^-?\d+\.\d+$/
MatchDecimal(s) ==
  LET t == DropSign(s)
  IN  \E p \in 1..Len(t) :
        /\ t[p] = "."
        /\ AllDigits(SubSeq(t, 1, p - 1))
        /\ AllDigits(SubSeq(t, p + 1, Len(t)))
\* boolean: /^(true|false|1|0|yes|no|y|n)$/i
MatchBoolean(s) ==
  ToLowerCase(s) \in { <<"t", "r", "u", "e">>, <<"f", "a", "l", "s", "e">>,
                        <<"1">>, <<"0">>, <<"y", "e", "s">>, <<"n", "o">>,
                        <<"y">>, <<"n">> }
\* date: /^\d{4}-\d{2}-\d{2}$/
MatchDate(s) ==
  /\ Len(s) = 10
  /\ AllDigits(SubSeq(s, 1, 4)) /\ s[5] = "-"
  /\ AllDigits(SubSeq(s, 6, 7)) /\ s[8] = "-"
  /\ AllDigits(SubSeq(s, 9, 10))
\* \d{2}:\d{2}:\d{2}
MatchTime(s) ==
  /\ Len(s) = 8
  /\ AllDigits(SubSeq(s, 1, 2)) /\ s[3] = ":"
  /\ AllDigits(SubSeq(s, 4, 5)) /\ s[6] = ":"
  /\ AllDigits(SubSeq(s, 7, 8))
\* datetime: /^\d{4}-\d{2}-\d{2}\s+\d{2}:\d{2}:\d{2}$/
MatchDatetime(s) ==
  /\ Len(s) >= 19
  /\ MatchDate(SubSeq(s, 1, 10))
  /\ \A i \in 11..(Len(s) - 8) : s[i] \in WhiteSpace
  /\ MatchTime(SubSeq(s, Len(s) - 7, Len(s)))
\* email: /^[^\s@]+@[^\s@]+\.[^\s@]+$/
MatchEmail(s) ==
  \E a \in 1..Len(s) : \E p \in (a + 1)..Len(s) :
    /\ s[a] = "@" /\ s[p] = "."
    /\ NoSpaceNoAt(SubSeq(s, 1, a - 1))
    /\ NoSpaceNoAt(SubSeq(s, a + 1, p - 1))
    /\ NoSpaceNoAt(SubSeq(s, p + 1, Len(s)))

PatternTest(type, s) ==
  CASE type = "integer" -> MatchInteger(s)
    [] type = "decimal" -> MatchDecimal(s)
    [] type = "boolean" -> MatchBoolean(s)
    [] type = "date" -> MatchDate(s)
    [] type = "datetime" -> MatchDatetime(s)
    [] type = "email" -> MatchEmail(s)

\* this.sqlTypes
sqlTypes ==
  [integer |-> "INT", decimal |-> "DECIMAL(10,2)", boolean |-> "BOOLEAN",
   date |-> "DATE", datetime |-> "DATETIME", email |-> "VARCHAR(255)",
   shortText |-> "VARCHAR(255)", longText |-> "TEXT", unknown |-> "VARCHAR(255)"]

\* A type list that tries boolean before integer.
typeChecks_booleanFirst ==
  <<"boolean", "integer", "decimal", "datetime", "date", "email">>

\* const typeChecks of analyzeField, in the order the loop visits them.
typeChecks == <<"integer", "decimal", "boolean", "datetime", "date", "email">>

\* determineStringType(values, maxLength)
determineStringType(values, maxLength) ==
  IF \E i \in 1..Len(values) : MatchEmail(values[i]) THEN sqlTypes.email
  ELSE IF maxLength > 500 THEN sqlTypes.longText
  ELSE IF maxLength > 255 THEN "VARCHAR(500)"
  ELSE sqlTypes.shortText

\* A number given as the quotient num / den.
Ratio(num, den) == [num |-> num, den |-> den]

\* confidence >= 0.8, the threshold of line 101 (matches / total >= 4 / 5).
ReachesThreshold(matches, total) == 5 * matches >= 4 * total

\* The for-of loop over typeChecks (lines 95-111); k indexes typeChecks.
\* NoType when no check reaches the threshold.
NoType == [jsType |-> "none"]
RECURSIVE TypeCheckLoop(_, _, _, _)
TypeCheckLoop(nonEmptyValues, k, hasNulls, maxLength) ==
  IF k > Len(typeChecks) THEN NoType
  ELSE
    LET type == typeChecks[k]
        matches == SelectSeq(nonEmptyValues, LAMBDA v : PatternTest(type, Trim(v)))
    IN  IF ReachesThreshold(Len(matches), Len(nonEmptyValues))
        THEN [jsType |-> type,
              sqlType |-> sqlTypes[type],
              confidence |-> Ratio(Len(matches), Len(nonEmptyValues)),
              hasNulls |-> hasNulls,
              maxLength |-> maxLength]
        ELSE TypeCheckLoop(nonEmptyValues, k + 1, hasNulls, maxLength)

\* analyzeField(fieldName, values); the values are strings (generateMapping
\* replaces every missing value by ''), and fieldName is not read.
analyzeField(values) ==
  LET nonEmptyValues == SelectSeq(values, LAMBDA v : v # <<>>)
      hasNulls == Len(nonEmptyValues) < Len(values)
      maxLength == SetMax({Len(nonEmptyValues[i]) : i \in 1..Len(nonEmptyValues)})
  IN
  IF Len(nonEmptyValues) = 0
  THEN [jsType |-> "string", sqlType |-> sqlTypes.unknown,
        confidence |-> Ratio(0, 1), hasNulls |-> TRUE, maxLength |-> 0]
  ELSE
    LET found == TypeCheckLoop(nonEmptyValues, 1, hasNulls, maxLength)
    IN  IF found # NoType THEN found
        ELSE [jsType |-> "string",
              sqlType |-> determineStringType(nonEmptyValues, maxLength),
              confidence |-> Ratio(1, 1),
              hasNulls |-> hasNulls,
              maxLength |-> maxLength]

\* \w of a regular expression, and the range \u4e00-\u9fff (one character
\* of it is modelled).
WordChars ==
  {UpperCase[k] : k \in 1..26} \cup {LowerCase[k] : k \in 1..26}
    \cup Digits \cup {"_"}
CJKChars == {"<4E2D>"}

\* .replace(/^_+|_+$/g, '')
StripUnderscores(s) ==
  LET keep == {i \in 1..Len(s) : s[i] # "_"}
  IN  IF keep = {} THEN <<>> ELSE SubSeq(s, SetMin(keep), SetMax(keep))

\* .replace(/_+/g, '_')
RECURSIVE CollapseUnderscores(_)
CollapseUnderscores(s) ==
  IF Len(s) <= 1 THEN s
  ELSE IF s[1] = "_" /\ s[2] = "_" THEN CollapseUnderscores(Tail(s))
       ELSE <<s[1]>> \o CollapseUnderscores(Tail(s))

\* The identifier length of sanitizeFieldName's substring(0, 64).
IdentifierMax == 64

\* sanitizeFieldName(fieldName)
sanitizeFieldName(fieldName) ==
  LET lower == ToLowerCase(fieldName)
      replaced == [i \in 1..Len(lower) |->
                     IF lower[i] \in WordChars \cup CJKChars THEN lower[i] ELSE "_"]
      collapsed == CollapseUnderscores(StripUnderscores(replaced))
  IN  SubSeq(collapsed, 1, IF Len(collapsed) < IdentifierMax
                           THEN Len(collapsed) ELSE IdentifierMax)

\* A row object is the sequence of its <<key, value>> pairs, in the order of
\* Object.keys; the values are strings.
RowKeys(row) == [k \in 1..Len(row) |-> row[k][1]]
RowHas(row, key) == \E k \in 1..Len(row) : row[k][1] = key
RowGet(row, key) == row[CHOOSE k \in 1..Len(row) : row[k][1] = key][2]

\* generateMapping(csvData): one mapping per header, keyed by the header (the
\* sequence lists them in the order of Object.keys).  A column is read by
\* position: Object.values(row)[index] || ''.
generateMapping(csvData) ==
  [index \in 1..Len(csvData.headers) |->
     LET header == csvData.headers[index]
         columnData == [r \in 1..Len(csvData.rows) |->
                          IF index <= Len(csvData.rows[r])
                          THEN csvData.rows[r][index][2] ELSE <<>>]
         fieldAnalysis == analyzeField(columnData)
     IN  [key |-> header,
          sqlFieldName |-> sanitizeFieldName(header),
          sqlType |-> fieldAnalysis.sqlType,
          jsType |-> fieldAnalysis.jsType,
          confidence |-> fieldAnalysis.confidence,
          nullable |-> fieldAnalysis.hasNulls,
          maxLength |-> fieldAnalysis.maxLength]]

\* mapping.confidence < 0.5, and (mapping.confidence * 100).toFixed(0)
LowConfidence(confidence) == 2 * confidence.num < confidence.den
Percent(confidence) ==
  (200 * confidence.num + confidence.den) \div (2 * confidence.den)

\* The outcome of a call that ends in a TypeError.
TypeErrorThrown == [threw |-> TRUE, error |-> "TypeError"]

\* The forEach of validateMappings (lines 171-190) from the k-th entry on.
\* An entry is [key, mapping]; a mapping is an object with a confidence and
\* an sqlFieldName that is a string or is missing, or is null.  Reading a
\* property of null, or the length of a missing sqlFieldName, is a TypeError.
RECURSIVE validateMappingsLoop(_, _, _, _, _)
validateMappingsLoop(entries, k, errors, warnings, usedSqlNames) ==
  IF k > Len(entries)
  THEN [threw |-> FALSE, isValid |-> Len(errors) = 0,
        errors |-> errors, warnings |-> warnings]
  ELSE
    LET mapping == entries[k].mapping
        duplicate == mapping.sqlFieldName \in usedSqlNames
        low == LowConfidence(mapping.confidence)
    IN  IF ~mapping.isObject \/ ~mapping.sqlFieldName.isString
        THEN TypeErrorThrown
        ELSE validateMappingsLoop(
               entries, k + 1,
               errors
                 \o (IF duplicate
                     THEN <<[text |-> "Duplicate SQL field name: ",
                             about |-> mapping.sqlFieldName.value]>>
                     ELSE <<>>)
                 \o (IF Len(mapping.sqlFieldName.value) > 64
                     THEN <<[text |-> "SQL field name too long: ",
                             about |-> mapping.sqlFieldName.value]>>
                     ELSE <<>>),
               warnings
                 \o (IF low
                     THEN <<[text |-> "Low confidence mapping for field: ",
                             about |-> entries[k].key,
                             percent |-> Percent(mapping.confidence)]>>
                     ELSE <<>>),
               usedSqlNames \cup {mapping.sqlFieldName})

\* validateMappings(fieldMappings); fieldMappings is null or an object, given
\* by its entries in the order of Object.entries.  Object.entries(null) is a
\* TypeError.
validateMappings(fieldMappings) ==
  IF ~fieldMappings.isObject THEN TypeErrorThrown
  ELSE validateMappingsLoop(fieldMappings.entries, 1, <<>>, <<>>, {})

(***************************************************************************)
(* SQLGenerator                                                            *)
(***************************************************************************)
S_mysql == <<"m", "y", "s", "q", "l">>
S_postgresql == <<"p", "o", "s", "t", "g", "r", "e", "s", "q", "l">>
S_sqlite == <<"s", "q", "l", "i", "t", "e">>
S_sqlserver == <<"s", "q", "l", "s", "e", "r", "v", "e", "r">>
S_INSERT == <<"I", "N", "S", "E", "R", "T">>
S_UPDATE == <<"U", "P", "D", "A", "T", "E">>
S_NULL == <<"N", "U", "L", "L">>
S_TRUE == <<"T", "R", "U", "E">>
S_FALSE == <<"F", "A", "L", "S", "E">>

\* this.supportedDatabases and this.defaultBatchSize
supportedDatabases == {S_mysql, S_postgresql, S_sqlite, S_sqlserver}
defaultBatchSize == 500

\* this.syntaxMap[name]: Undefined for a key the entry does not have, and
\* NoSyntax for a name the map does not have.
NoSyntax == [quoteChar |-> Undefined]
SyntaxOf(name) ==
  CASE name = S_mysql ->
         [quoteChar |-> BACKTICK, quoteCharEnd |-> Undefined, stringQuote |-> SQ,
          booleanTrue |-> S_TRUE, booleanFalse |-> S_FALSE,
          createTable |-> "CREATE TABLE IF NOT EXISTS",
          insertIgnore |-> "INSERT IGNORE INTO",
          onDuplicateKey |-> "ON DUPLICATE KEY UPDATE", onConflict |-> Undefined]
    [] name = S_postgresql ->
         [quoteChar |-> DQ, quoteCharEnd |-> Undefined, stringQuote |-> SQ,
          booleanTrue |-> S_TRUE, booleanFalse |-> S_FALSE,
          createTable |-> "CREATE TABLE IF NOT EXISTS",
          insertIgnore |-> "INSERT INTO",
          onDuplicateKey |-> Undefined, onConflict |-> "ON CONFLICT DO NOTHING"]
    [] name = S_sqlite ->
         [quoteChar |-> DQ, quoteCharEnd |-> Undefined, stringQuote |-> SQ,
          booleanTrue |-> <<"1">>, booleanFalse |-> <<"0">>,
          createTable |-> "CREATE TABLE IF NOT EXISTS",
          insertIgnore |-> "INSERT OR IGNORE INTO",
          onDuplicateKey |-> Undefined, onConflict |-> Undefined]
    [] name = S_sqlserver ->
         [quoteChar |-> "[", quoteCharEnd |-> "]", stringQuote |-> SQ,
          booleanTrue |-> <<"1">>, booleanFalse |-> <<"0">>,
          createTable |-> "CREATE TABLE",
          insertIgnore |-> "INSERT INTO",
          onDuplicateKey |-> Undefined, onConflict |-> Undefined]
    [] OTHER -> NoSyntax

\* Every single quote doubled, as replace with the pattern for all single
\* quotes does.
RECURSIVE DoubleQuotes(_)
DoubleQuotes(s) ==
  IF s = <<>> THEN <<>>
  ELSE (IF s[1] = SQ THEN <<SQ, SQ>> ELSE <<s[1]>>) \o DoubleQuotes(Tail(s))

\* A formatting that wraps every value that is not empty in the string
\* quote, whatever its type.
formatValue_quoteAll(value, mapping, syntax) ==
  IF value = <<>> THEN S_NULL
  ELSE <<syntax.stringQuote>> \o DoubleQuotes(Trim(value)) \o <<syntax.stringQuote>>

\* formatValue(value, mapping, syntax): the literal, as a string.
formatValue(value, mapping, syntax) ==
  IF value = <<>> THEN S_NULL
  ELSE
    LET jsType == mapping.jsType
        stringValue == Trim(value)
    IN  CASE jsType = "integer" -> stringValue
          [] jsType = "decimal" -> stringValue
          [] jsType = "boolean" ->
               IF ToLowerCase(stringValue) \in
                    { <<"t", "r", "u", "e">>, <<"1">>, <<"y", "e", "s">>, <<"y">> }
               THEN syntax.booleanTrue ELSE syntax.booleanFalse
          [] OTHER ->
               <<syntax.stringQuote>> \o DoubleQuotes(stringValue)
                 \o <<syntax.stringQuote>>

\* quoteIdentifier(identifier, syntax): the opening quote, the identifier as
\* given, the closing quote.
quoteIdentifier(identifier, syntax) ==
  LET endQuote == IF syntax.quoteCharEnd # Undefined
                  THEN syntax.quoteCharEnd ELSE syntax.quoteChar
  IN  <<syntax.quoteChar>> \o identifier \o <<endQuote>>

\* !isNaN(value) for a string: Number(value) is a number for white space
\* alone (0) and for a decimal literal with an optional sign, fraction.
IsNumericString(value) ==
  LET t == Trim(value)
      u == IF Len(t) >= 1 /\ t[1] \in {"-", "+"} THEN Tail(t) ELSE t
  IN  \/ t = <<>>
      \/ AllDigits(u)
      \/ \E p \in 1..Len(u) :
            /\ u[p] = "."
            /\ Len(u) >= 2
            /\ \A i \in (1..Len(u)) \ {p} : u[i] \in Digits

\* quoteValue(value, syntax) for a string value.  The switch compares the
\* syntax object with dialect names, so the default branch is always taken.
quoteValue(value, syntax) ==
  IF IsNumericString(value) THEN value
  ELSE <<SQ>> \o DoubleQuotes(value) \o <<SQ>>

\* key.endsWith(suffix)
EndsWith(s, suffix) ==
  /\ Len(s) >= Len(suffix)
  /\ SubSeq(s, Len(s) - Len(suffix) + 1, Len(s)) = suffix

\* key.replace(pattern, ''): the first occurrence of pattern is removed.
RemoveFirst(s, pattern) ==
  LET hits == {i \in 1..(Len(s) - Len(pattern) + 1) :
                 SubSeq(s, i, i + Len(pattern) - 1) = pattern}
  IN  IF hits = {} THEN s
      ELSE SubSeq(s, 1, SetMin(hits) - 1)
             \o SubSeq(s, SetMin(hits) + Len(pattern), Len(s))

M_WHERE == <<"[", "W", "H", "E", "R", "E", "]">>
M_SET == <<"[", "S", "E", "T", "]">>

\* A configuration is a record of the six required keys and the options.
\* A string key that is missing or empty is <<>>; absent holds those of
\* fieldMappings and csvData that are missing (an empty object is truthy);
\* rowsIsArray is Array.isArray(config.csvData.rows).
requiredKeys ==
  <<"operation", "databaseName", "tableName", "databaseType",
    "fieldMappings", "csvData">>

\* !config[field]
Falsy(config, field) ==
  IF field \in {"fieldMappings", "csvData"} THEN field \in config.absent
  ELSE config[field] = <<>>

\* validateConfig(config): whether it returns, and the message of the error
\* it throws otherwise, as the text and the value put into it.
Accepted == [ok |-> TRUE]
Refused(text, value) == [ok |-> FALSE, error |-> <<text, value>>]

\* A validation that accepts every configuration.
validateConfig_acceptAll(config) == Accepted

validateConfig(config) ==
  LET missing == {k \in 1..Len(requiredKeys) : Falsy(config, requiredKeys[k])}
  IN  IF missing # {}
      THEN Refused("Missing required configuration: ", requiredKeys[SetMin(missing)])
      ELSE IF ToLowerCase(config.databaseType) \notin supportedDatabases
      THEN Refused("Unsupported database type: ", config.databaseType)
      ELSE IF ToUpperCase(config.operation) \notin {S_INSERT, S_UPDATE}
      THEN Refused("Unsupported operation: ", config.operation)
      ELSE IF ~config.rowsIsArray
      THEN Refused("csvData.rows must be an array", "")
      ELSE Accepted

\* options.batchSize is [type |-> "number", n |-> ...], or a string that is
\* no number ("all"), or undefined.  parseInt gives NaN for the last two.
NaN == [type |-> "NaN"]
ParseInt(v) == IF v.type = "number" THEN v ELSE NaN
Num(n) == [type |-> "number", n |-> n]

\* A batch size that is the default whatever the options say.
BatchSizeOf_default(options) == defaultBatchSize

\* parseInt(options.batchSize) || this.defaultBatchSize
BatchSizeOf(options) ==
  LET parsed == ParseInt(options.batchSize)
  IN  IF parsed = NaN \/ parsed.n = 0 THEN defaultBatchSize ELSE parsed.n

\* Array.prototype.slice(start, end)
SliceIndex(k, n) == IF k < 0 THEN (IF n + k < 0 THEN 0 ELSE n + k)
                    ELSE (IF k > n THEN n ELSE k)
Slice(s, start, end) ==
  SubSeq(s, SliceIndex(start, Len(s)) + 1, SliceIndex(end, Len(s)))

\* A transaction start that is BEGIN; for every dialect.
getTransactionStart_begin(databaseType) == "BEGIN;"

\* getTransactionStart(databaseType)
getTransactionStart(databaseType) ==
  LET name == ToLowerCase(databaseType)
  IN  CASE name = S_mysql -> "START TRANSACTION;"
        [] name = S_postgresql -> "BEGIN;"
        [] name = S_sqlite -> "BEGIN TRANSACTION;"
        [] name = S_sqlserver -> "BEGIN TRANSACTION;"
        [] OTHER -> "BEGIN;"

\* The pieces of the SQL text, in the order they are appended.
HeaderSegment(config) ==
  [kind |-> "header", operation |-> config.operation,
   databaseName |-> config.databaseName, tableName |-> config.tableName,
   databaseType |-> config.databaseType]
FooterSegment(recordCount, batchCount) ==
  [kind |-> "footer", recordCount |-> recordCount, batchCount |-> batchCount]
TransactionStartSegment(config) ==
  [kind |-> "transactionStart", text |-> getTransactionStart(config.databaseType)]
CommitSegment == [kind |-> "commit", text |-> "COMMIT;"]
RollbackSegment == [kind |-> "rollback", text |-> "ROLLBACK;"]

\* generateCreateTableSQL(tableName, fieldMappings, syntax)
generateCreateTableSQL(tableName, fieldMappings, syntax) ==
  [kind |-> "createTable",
   keyword |-> syntax.createTable,
   table |-> quoteIdentifier(tableName, syntax),
   columns |-> [k \in 1..Len(fieldMappings) |->
                  [name |-> quoteIdentifier(fieldMappings[k].sqlFieldName, syntax),
                   sqlType |-> fieldMappings[k].sqlType,
                   notNull |-> ~fieldMappings[k].nullable]]]

\* generateOnDuplicateKeyUpdate(fieldMappings, syntax): the quoted columns of
\* the assignments  column = VALUES(column).
generateOnDuplicateKeyUpdate(fieldMappings, syntax) ==
  [k \in 1..Len(fieldMappings) |->
     quoteIdentifier(fieldMappings[k].sqlFieldName, syntax)]

\* One INSERT statement of generateInsertSQL (lines 457-488) for a batch.
InsertStatement(config, syntax, batch) ==
  LET options == config.options
      fieldMappings == config.fieldMappings
  IN  [kind |-> "insert",
       insertType |-> IF options.insertMode = "ignore"
                      THEN syntax.insertIgnore ELSE "INSERT INTO",
       table |-> quoteIdentifier(config.tableName, syntax),
       fields |-> [k \in 1..Len(fieldMappings) |->
                     quoteIdentifier(fieldMappings[k].sqlFieldName, syntax)],
       valueRows |->
         [r \in 1..Len(batch) |->
            [k \in 1..Len(fieldMappings) |->
               IF RowHas(batch[r], fieldMappings[k].key)
               THEN formatValue(RowGet(batch[r], fieldMappings[k].key),
                                fieldMappings[k], syntax)
               ELSE S_NULL]],
       onDuplicateKey |->
         IF syntax.onDuplicateKey # Undefined /\ options.insertMode = "update"
         THEN generateOnDuplicateKeyUpdate(fieldMappings, syntax) ELSE <<>>,
       onConflict |->
         IF syntax.onConflict # Undefined /\ options.insertMode = "ignore"
         THEN syntax.onConflict ELSE Undefined]

\* The assignments  field = value  of the cells of a row picked for a
\* marker, with the marker removed from the key.
Assignments(hits, marker, syntax) ==
  [k \in 1..Len(hits) |->
     [field |-> quoteIdentifier(RemoveFirst(hits[k][1], marker), syntax),
      value |-> quoteValue(hits[k][2], syntax)]]

\* whereFields and setFields of one row (lines 514-545): the cells that are
\* not empty; a key is looked at for [SET] only when it does not end with
\* [WHERE].
WhereFieldsOf(row, syntax) ==
  Assignments(SelectSeq(row, LAMBDA kv : EndsWith(kv[1], M_WHERE) /\ kv[2] # <<>>),
              M_WHERE, syntax)
SetFieldsOf(row, syntax) ==
  Assignments(SelectSeq(row, LAMBDA kv : /\ ~EndsWith(kv[1], M_WHERE)
                                          /\ EndsWith(kv[1], M_SET)
                                          /\ kv[2] # <<>>),
              M_SET, syntax)

NoWhereMessage ==
  "UPDATE mode requires at least one WHERE condition field (column name with [WHERE] suffix)"
NoSetMessage ==
  "UPDATE mode requires at least one SET field (column name with [SET] suffix)"

\* rows.forEach of generateUpdateSQL (lines 510-565); r is the 1-based index
\* of the next row.  A throw leaves forEach at once.
RECURSIVE UpdateRowsLoop(_, _, _, _, _)
UpdateRowsLoop(config, syntax, r, sql, recordCount) ==
  LET rows == config.csvData.rows
  IN
  IF r > Len(rows)
  THEN [ok |-> TRUE, sql |-> sql, recordCount |-> recordCount, batchCount |-> 1]
  ELSE
    LET whereFields == WhereFieldsOf(rows[r], syntax)
        setFields == SetFieldsOf(rows[r], syntax)
    IN  IF Len(whereFields) = 0
        THEN [ok |-> FALSE, error |-> NoWhereMessage]
        ELSE IF Len(setFields) = 0
        THEN [ok |-> FALSE, error |-> NoSetMessage]
        ELSE UpdateRowsLoop(config, syntax, r + 1,
               Append(sql, [kind |-> "update",
                            table |-> quoteIdentifier(config.tableName, syntax),
                            set |-> setFields,
                            where |-> whereFields]),
               recordCount + 1)

\* An UPDATE path that leaves out the rows lacking a WHERE or a SET field
\* and returns the statements of the others.
generateUpdateSQL_skipIncomplete(config, syntax) ==
  LET complete == SelectSeq(config.csvData.rows, LAMBDA row :
                    Len(WhereFieldsOf(row, syntax)) > 0 /\ Len(SetFieldsOf(row, syntax)) > 0)
  IN  [ok |-> TRUE,
       sql |-> [r \in 1..Len(complete) |->
                  [kind |-> "update",
                   table |-> quoteIdentifier(config.tableName, syntax),
                   set |-> SetFieldsOf(complete[r], syntax),
                   where |-> WhereFieldsOf(complete[r], syntax)]],
       recordCount |-> Len(complete), batchCount |-> 1]

\* An UPDATE path that does not look for WHERE conditions: a row with SET
\* fields becomes a statement whatever its WHERE fields are.
generateUpdateSQL_noWhereCheck(config, syntax) ==
  LET rows == config.csvData.rows
  IN  IF \E r \in 1..Len(rows) : Len(SetFieldsOf(rows[r], syntax)) = 0
      THEN [ok |-> FALSE, error |-> NoSetMessage]
      ELSE [ok |-> TRUE,
            sql |-> [r \in 1..Len(rows) |->
                       [kind |-> "update",
                        table |-> quoteIdentifier(config.tableName, syntax),
                        set |-> SetFieldsOf(rows[r], syntax),
                        where |-> WhereFieldsOf(rows[r], syntax)]],
            recordCount |-> Len(rows), batchCount |-> 1]

\* generateUpdateSQL(config, syntax)
generateUpdateSQL(config, syntax) == UpdateRowsLoop(config, syntax, 1, <<>>, 0)

\* The end of the try block of generateSQL (lines 400-414): the result.
FinishSQL(config, sqlScript, body, recordCount, batchCount) ==
  LET options == config.options
      text == sqlScript \o body
                \o (IF options.includeTransaction THEN <<CommitSegment>> ELSE <<>>)
                \o (IF options.includeComments
                    THEN <<FooterSegment(recordCount, batchCount)>> ELSE <<>>)
  IN  [sql |-> text,
       metadata |-> [operation |-> config.operation,
                     databaseType |-> config.databaseType,
                     tableName |-> config.tableName,
                     recordCount |-> recordCount,
                     batchCount |-> batchCount],
       success |-> TRUE]

(***************************************************************************)
(* UpdateOperationHandler                                                  *)
(***************************************************************************)
\* JavaScript values handed to the handler: strings, numbers that are not
\* negative, booleans, null, undefined and arrays of such.
StrV(s) == [t |-> "string", v |-> s]
NumV(n) == [t |-> "number", v |-> n]
BoolV(b) == [t |-> "boolean", v |-> b]
ArrV(elements) == [t |-> "array", v |-> elements]
NullV == [t |-> "null"]
UndefinedV == [t |-> "undefined"]

\* The strings with sep between them.
RECURSIVE Join(_, _)
Join(strings, sep) ==
  IF strings = <<>> THEN <<>>
  ELSE IF Len(strings) = 1 THEN strings[1]
  ELSE strings[1] \o sep \o Join(Tail(strings), sep)

\* String(value); an array is of strings, numbers and booleans.
ScalarString(value) ==
  CASE value.t = "string" -> value.v
    [] value.t = "number" -> NumToStr(value.v)
    [] value.t = "boolean" -> IF value.v THEN <<"t", "r", "u", "e">> ELSE <<"f", "a", "l", "s", "e">>
    [] value.t = "null" -> <<"n", "u", "l", "l">>
    [] OTHER -> <<"u", "n", "d", "e", "f", "i", "n", "e", "d">>
JSString(value) ==
  IF value.t = "array"
  THEN Join([k \in 1..Len(value.v) |-> ScalarString(value.v[k])], <<",">>)
  ELSE ScalarString(value)

\* value ? ... : ...
Truthy(value) ==
  CASE value.t = "string" -> value.v # <<>>
    [] value.t = "number" -> value.v # 0
    [] value.t = "boolean" -> value.v
    [] value.t = "array" -> TRUE
    [] OTHER -> FALSE

\* The string formatting of formatValueForSQL (lines 665, 683).
QuotedForSQL(value) == <<SQ>> \o DoubleQuotes(JSString(value)) \o <<SQ>>

\* formatValueForSQL(value, dataType)
formatValueForSQL(value, dataType) ==
  IF value.t \in {"null", "undefined"} THEN S_NULL
  ELSE
    LET type == ToLowerCase(dataType)
    IN  CASE type \in {<<"s", "t", "r", "i", "n", "g">>, <<"t", "e", "x", "t">>, <<"v", "a", "r", "c", "h", "a", "r">>} -> QuotedForSQL(value)
          [] type \in {<<"n", "u", "m", "b", "e", "r">>, <<"i", "n", "t", "e", "g", "e", "r">>, <<"i", "n", "t">>, <<"f", "l", "o", "a", "t">>, <<"d", "e", "c", "i", "m", "a", "l">>} ->
               JSString(value)
          [] type \in {<<"b", "o", "o", "l", "e", "a", "n">>, <<"b", "o", "o", "l">>} ->
               IF Truthy(value) THEN S_TRUE ELSE S_FALSE
          [] type = <<"n", "u", "l", "l">> -> S_NULL
          [] OTHER -> QuotedForSQL(value)

\* generateSetClause(): name = value for every SET field, joined by commas.
generateSetClause(setFields) ==
  Join([k \in 1..Len(setFields) |->
          setFields[k].name \o <<" ", "=", " ">>
            \o formatValueForSQL(setFields[k].value, setFields[k].dataType)],
       <<",", " ">>)

S_IN == <<"I", "N">>
S_NOT_IN == <<"N", "O", "T", " ", "I", "N">>
S_IS_NULL == <<"I", "S", " ", "N", "U", "L", "L">>
S_IS_NOT_NULL == <<"I", "S", " ", "N", "O", "T", " ", "N", "U", "L", "L">>
validOperators ==
  { <<"=">>, <<"!", "=">>, <<"<", ">">>, <<"<">>, <<">">>, <<"<", "=">>, <<">", "=">>, <<"L", "I", "K", "E">>, <<"N", "O", "T", " ", "L", "I", "K", "E">>,
    S_IN, S_NOT_IN, S_IS_NULL, S_IS_NOT_NULL }
validLogicalOperators == { <<"A", "N", "D">>, <<"O", "R">> }

\* One condition of generateWhereClause (lines 713-731).
ConditionText(condition) ==
  LET fieldName == condition.fieldName
      operator == condition.operator
  IN  IF operator \in {S_IS_NULL, S_IS_NOT_NULL}
      THEN fieldName \o <<" ">> \o operator
      ELSE IF operator \in {S_IN, S_NOT_IN}
      THEN IF condition.value.t = "array"
           THEN fieldName \o <<" ">> \o operator \o <<" ", "(">>
                  \o Join([k \in 1..Len(condition.value.v) |->
                             formatValueForSQL(condition.value.v[k],
                                               condition.dataType)],
                          <<",", " ">>)
                  \o <<")">>
           ELSE fieldName \o <<" ", "=", " ">>
                  \o formatValueForSQL(condition.value, condition.dataType)
      ELSE fieldName \o <<" ">> \o operator \o <<" ">>
             \o formatValueForSQL(condition.value, condition.dataType)

\* A WHERE clause that renders IN and NOT IN with the value as it is given,
\* array or not.
RECURSIVE generateWhereClause_plainIn(_)
generateWhereClause_plainIn(whereConditions) ==
  IF whereConditions = <<>> THEN <<>>
  ELSE LET n == Len(whereConditions)
           c == whereConditions[n]
       IN  generateWhereClause_plainIn(SubSeq(whereConditions, 1, n - 1))
             \o (IF n > 1 THEN <<" ">> \o c.logicalOperator \o <<" ">> ELSE <<>>)
             \o c.fieldName \o <<" ">> \o c.operator \o <<" ">>
             \o (IF c.operator \in {S_IS_NULL, S_IS_NOT_NULL} THEN <<>>
                 ELSE formatValueForSQL(c.value, c.dataType))

\* generateWhereClause(): the conditions, each but the first behind its
\* logical operator; the empty string when there is none.
RECURSIVE generateWhereClause(_)
generateWhereClause(whereConditions) ==
  IF whereConditions = <<>> THEN <<>>
  ELSE LET n == Len(whereConditions)
       IN  generateWhereClause(SubSeq(whereConditions, 1, n - 1))
             \o (IF n > 1 THEN <<" ">> \o whereConditions[n].logicalOperator \o <<" ">>
                 ELSE <<>>)
             \o ConditionText(whereConditions[n])

\* !fieldName || typeof fieldName !== 'string' || fieldName.trim() === ''
BadName(fieldName) == fieldName.t # "string" \/ Trim(fieldName.v) = <<>>

\* The SET fields after addSetField(fieldName, value, dataType) has appended
\* without removing the field of the same name.
addSetField_append(setFields, fieldName, value, dataType) ==
  Append(setFields,
         [name |-> Trim(fieldName.v), value |-> value, dataType |-> dataType])

\* The SET fields after addSetField(fieldName, value, dataType), for a name
\* that passes the check of line 502.
addSetField(setFields, fieldName, value, dataType) ==
  Append(SelectSeq(setFields, LAMBDA field : field.name # Trim(fieldName.v)),
         [name |-> Trim(fieldName.v), value |-> value, dataType |-> dataType])

\* removeSetField(fieldName)
removeSetField(setFields, fieldName) ==
  SelectSeq(setFields, LAMBDA field : StrV(field.name) # fieldName)

\* A check of addWhereCondition that lets every operator through.
WhereConditionRefused_anyOperator(fieldName, operator, logicalOperator) ==
  \/ BadName(fieldName)
  \/ ToUpperCase(logicalOperator) \notin validLogicalOperators

\* Whether addWhereCondition throws (lines 534-546).
WhereConditionRefused(fieldName, operator, logicalOperator) ==
  \/ BadName(fieldName)
  \/ ToUpperCase(operator) \notin validOperators
  \/ ToUpperCase(logicalOperator) \notin validLogicalOperators

\* The condition addWhereCondition pushes (lines 548-554).
NewCondition(fieldName, operator, value, dataType, logicalOperator) ==
  [fieldName |-> Trim(fieldName.v), operator |-> ToUpperCase(operator),
   value |-> value, dataType |-> dataType,
   logicalOperator |-> ToUpperCase(logicalOperator)]

\* validate(): the validation errors, in the order they are pushed.
ErrorsWhen(cond, text, about) ==
  IF cond THEN <<[text |-> text, about |-> about]>> ELSE <<>>
RECURSIVE SetFieldErrors(_, _)
SetFieldErrors(setFields, index) ==
  IF index > Len(setFields) THEN <<>>
  ELSE ErrorsWhen(setFields[index].name = <<>>,
                  "SET field at index is missing a name", NumToStr(index - 1))
         \o ErrorsWhen(setFields[index].value.t = "undefined",
                       "SET field is missing a value", setFields[index].name)
         \o SetFieldErrors(setFields, index + 1)
RECURSIVE WhereConditionErrors(_, _)
WhereConditionErrors(whereConditions, index) ==
  IF index > Len(whereConditions) THEN <<>>
  ELSE ErrorsWhen(whereConditions[index].fieldName = <<>>,
                  "WHERE condition at index is missing a field name",
                  NumToStr(index - 1))
         \o ErrorsWhen(/\ whereConditions[index].operator
                            \notin {S_IS_NULL, S_IS_NOT_NULL}
                       /\ whereConditions[index].value.t = "undefined",
                       "WHERE condition is missing a value",
                       whereConditions[index].fieldName)
         \o WhereConditionErrors(whereConditions, index + 1)
NoWhereWarning ==
  "WHERE conditions are strongly recommended to prevent updating all rows"

validate(tableName, setFields, whereConditions) ==
  ErrorsWhen(tableName = <<>>, "Table name is required", <<>>)
    \o ErrorsWhen(Len(setFields) = 0,
                  "At least one SET field is required for UPDATE operation", <<>>)
    \o ErrorsWhen(Len(whereConditions) = 0, NoWhereWarning, <<>>)
    \o SetFieldErrors(setFields, 1)
    \o WhereConditionErrors(whereConditions, 1)

\* The statement generateSQL() returns once validate() has passed.
UpdateStatement(tableName, setFields, whereConditions) ==
  LET setClause == generateSetClause(setFields)
      whereClause == generateWhereClause(whereConditions)
  IN  <<"U", "P", "D", "A", "T", "E", " ">> \o tableName \o <<" ", "S", "E", "T", " ">> \o setClause
        \o (IF whereClause # <<>> THEN <<" ", "W", "H", "E", "R", "E", " ">> \o whereClause ELSE <<>>)
        \o <<";">>

(***************************************************************************)
(* CSVParser: the calls.                                                   *)
(***************************************************************************)
Str(chars) == [isString |-> TRUE, value |-> chars]
NotAString == [isString |-> FALSE, value |-> <<>>]

\* The two lines the documentation uses as examples:  a,"b,c",d  and  a,b,c;d
DocLines ==
  { <<"a", ",", DQ, "b", ",", "c", DQ, ",", "d">>,
    <<"a", ",", "b", ",", "c", ";", "d">> }

LineAlphabet == {"a", ",", ";", "|", TAB, DQ, SQ, " "}
Lines == SeqsUpTo(LineAlphabet, MaxLineLen) \cup DocLines

TextAlphabet == {"a", ",", DQ, " ", LF}
Texts == {Str(t) : t \in SeqsUpTo(TextAlphabet, MaxTextLen)} \cup {NotAString}

ParseOptions ==
  [delimiter : {Null, ";"}, hasHeader : BOOLEAN,
   skipEmptyLines : BOOLEAN, trimValues : BOOLEAN]

\* Each behaviour of the model is one call of one method on a fresh object:
\* the methods keep no state between calls.
NoCall == [op |-> "none"]

ParseCSVLine ==
  /\ lineCall = NoCall
  /\ \E line \in Lines, d \in 1..Len(delimiters), trimValues \in BOOLEAN :
        lineCall' = [op |-> "parseCSVLine", line |-> line,
                     delimiter |-> delimiters[d], trimValues |-> trimValues,
                     result |-> parseCSVLine(line, delimiters[d], trimValues)]
  /\ UNCHANGED <<parseCall, fieldCall, gen, handler, wizard, background>>

DetectDelimiter ==
  /\ lineCall = NoCall
  /\ \E line \in Lines :
        lineCall' = [op |-> "detectDelimiter", line |-> line,
                     result |-> detectDelimiter(line)]
  /\ UNCHANGED <<parseCall, fieldCall, gen, handler, wizard, background>>

CountDelimiterOccurrences ==
  /\ lineCall = NoCall
  /\ \E line \in Lines, d \in 1..Len(delimiters) :
        lineCall' = [op |-> "countDelimiterOccurrences", line |-> line,
                     delimiter |-> delimiters[d],
                     result |-> countDelimiterOccurrences(line, delimiters[d])]
  /\ UNCHANGED <<parseCall, fieldCall, gen, handler, wizard, background>>

ParseCSVText ==
  /\ parseCall = NoCall
  /\ \E csvText \in Texts, options \in ParseOptions :
        parseCall' = [op |-> "parseCSVText", csvText |-> csvText,
                      options |-> options,
                      result |-> parseCSVText(csvText, options)]
  /\ UNCHANGED <<lineCall, fieldCall, gen, handler, wizard, background>>

\* parseCSVText on a text and on the same text behind a byte-order mark, each
\* on a fresh parser.
MarkedAlphabet == {"a", ",", LF, BOM}
MarkedTexts ==
  SeqsUpTo(MarkedAlphabet, MaxMarkedTextLen) \cup {BOMBytes, BOMBytes \o <<"a">>}
ParseCSVTextWithBOM ==
  /\ parseCall = NoCall
  /\ \E t \in MarkedTexts, mark \in {<<BOM>>, BOMBytes}, options \in ParseOptions :
        parseCall' = [op |-> "parseCSVTextWithBOM", text |-> t, mark |-> mark,
                      options |-> options,
                      plain |-> parseCSVText(Str(t), options),
                      marked |-> parseCSVText(Str(mark \o t), options)]
  /\ UNCHANGED <<lineCall, fieldCall, gen, handler, wizard, background>>

\* Values of a column: 1, 12, 1.5, yes, a datetime, a date, an e-mail
\* address, a text holding a single quote, and the empty string.
FieldValues ==
  { <<"1">>, <<"1", "2">>, <<"1", ".", "5">>, <<"y", "e", "s">>,
    <<"2", "0", "2", "4", "-", "0", "1", "-", "0", "2", " ",
      "0", "3", ":", "0", "4", ":", "0", "5">>,
    <<"2", "0", "2", "4", "-", "0", "1", "-", "0", "2">>,
    <<"a", "@", "b", ".", "c">>,
    <<"x", SQ>>,
    <<>> }
\* Columns at the 80% threshold: four values alike and a fifth.
ThresholdColumns == {<<x, x, x, x, y>> : x \in FieldValues, y \in FieldValues}
Columns == SeqsUpTo(FieldValues, MaxColumnLen) \cup ThresholdColumns

AnalyzeField ==
  /\ fieldCall = NoCall
  /\ \E values \in Columns :
        fieldCall' = [op |-> "analyzeField", values |-> values,
                      result |-> analyzeField(values)]
  /\ UNCHANGED <<lineCall, parseCall, gen, handler, wizard, background>>

\* The mappings handed to validateMappings: what generateMapping returns and
\* what importMappingConfig parses from JSON, which may be null or hold
\* mappings that are null or lack their sqlFieldName.
Repeated(char, n) == [i \in 1..n |-> char]
SqlFieldNames ==
  { Str(<<"a">>), Str(<<"b">>), Str(Repeated("a", IdentifierMax)),
    Str(Repeated("a", IdentifierMax + 1)), NotAString }
Confidences == {Ratio(1, 1), Ratio(2, 5)}
NullMapping == [isObject |-> FALSE]
Mappings ==
  {[isObject |-> TRUE, sqlFieldName |-> n, confidence |-> c] :
     n \in SqlFieldNames, c \in Confidences} \cup {NullMapping}
EntriesOf(mappings) ==
  [k \in 1..Len(mappings) |->
     [key |-> <<"h">> \o NumToStr(k), mapping |-> mappings[k]]]
FieldMappingObjects ==
  {[isObject |-> TRUE, entries |-> EntriesOf(m)] :
     m \in SeqsUpTo(Mappings, MaxMappings)} \cup {[isObject |-> FALSE]}

ValidateMappings ==
  /\ fieldCall = NoCall
  /\ \E fieldMappings \in FieldMappingObjects :
        fieldCall' = [op |-> "validateMappings",
                      fieldMappings |-> fieldMappings,
                      result |-> validateMappings(fieldMappings)]
  /\ UNCHANGED <<lineCall, parseCall, gen, handler, wizard, background>>

\* Headers handed to sanitizeFieldName: short ones of letters in both cases,
\* a digit, an underscore, a blank and a CJK character, and long ones that
\* reach the identifier length with their tail.
HeaderAlphabet == {"A", "b", "1", "_", " ", "<4E2D>"}
ShortHeaders == SeqsUpTo(HeaderAlphabet, MaxHeaderLen)
LongHeaders ==
  {Repeated("a", IdentifierMax - 2) \o tail :
     tail \in SeqsUpTo({"b", "_", " "}, MaxHeaderLen)}
SanitizeFieldName ==
  /\ fieldCall = NoCall
  /\ \E fieldName \in ShortHeaders \cup LongHeaders :
        fieldCall' = [op |-> "sanitizeFieldName", fieldName |-> fieldName,
                      result |-> sanitizeFieldName(fieldName)]
  /\ UNCHANGED <<lineCall, parseCall, gen, handler, wizard, background>>

(***************************************************************************)
(* SQLGenerator: the calls.                                                *)
(***************************************************************************)
\* The keys of a row object are the headers; a row is built from its cells
\* as parseCSVContent builds it.
\* An object is held as its own properties in the order Object.values
\* walks them: the keys that are array indices ascending, then the other
\* keys in the order they were first assigned.
IsArrayIndex(key) ==
  /\ Len(key) > 0
  /\ \A k \in 1..Len(key) : key[k] \in Digits
  /\ Len(key) = 1 \/ key[1] # "0"
RECURSIVE IndexValue(_)
IndexValue(key) ==
  IF Len(key) = 0 THEN 0
  ELSE 10 * IndexValue(SubSeq(key, 1, Len(key) - 1))
         + (CHOOSE d \in 0..9 : DigitChars[d + 1] = key[Len(key)])
ComesBefore(key, other) ==
  /\ IsArrayIndex(key)
  /\ IsArrayIndex(other) => IndexValue(key) < IndexValue(other)

\* obj[key] = value: an own key keeps its place and takes the value.
SetProperty(obj, key, value) ==
  IF \E k \in 1..Len(obj) : obj[k][1] = key
  THEN [k \in 1..Len(obj) |-> IF obj[k][1] = key THEN <<key, value>> ELSE obj[k]]
  ELSE LET before == SelectSeq(obj, LAMBDA p : ~ComesBefore(key, p[1]))
           after == SelectSeq(obj, LAMBDA p : ComesBefore(key, p[1]))
       IN  before \o << <<key, value>> >> \o after

\* headers.forEach((header, index) => { obj[header] = row[index] || ''; })
RECURSIVE RowObjectLoop(_, _, _, _)
RowObjectLoop(headers, cells, index, obj) ==
  IF index > Len(headers) THEN obj
  ELSE RowObjectLoop(headers, cells, index + 1,
         SetProperty(obj, headers[index],
                     IF index <= Len(cells) THEN cells[index] ELSE <<>>))
RowObject(headers, cells) == RowObjectLoop(headers, cells, 1, <<>>)

\* parseCSVContent(csvContent) of the popup: parse with the parser's default
\* options, turn the rows into objects, generate the field mappings.
parseCSVContent(csvContent) ==
  LET csvData == parseCSVText(Str(csvContent),
                   [delimiter |-> Null, hasHeader |-> TRUE,
                    skipEmptyLines |-> TRUE, trimValues |-> TRUE])
  IN  IF ~csvData.ok THEN ParseFailure("CSV parsing failed")
      ELSE
        LET rowObjects == [r \in 1..Len(csvData.rows) |->
                             RowObject(csvData.headers, csvData.rows[r])]
            fieldMappings == generateMapping([headers |-> csvData.headers,
                                              rows |-> rowObjects])
        IN  [ok |-> TRUE,
             headers |-> csvData.headers,
             rows |-> csvData.rows,
             totalRows |-> csvData.totalRows,
             totalColumns |-> csvData.columns,
             fieldMappings |-> fieldMappings]

\* CSV files of one header line and one data line, of up to MaxTableColumns
\* columns; header names may repeat and may be numbers.
MaxTableColumns == 3
TableHeaderNames == { <<"a">>, <<"b">>, <<"1">> }
TableCells == { <<"7">>, <<"x">>, <<"1", ".", "5">> }
CsvContents ==
  UNION { { Join(headers, <<",">>) \o <<LF>> \o Join(cells, <<",">>) :
              headers \in [1..n -> TableHeaderNames],
              cells \in [1..n -> TableCells] } : n \in 1..MaxTableColumns }

ParseCSVContent ==
  /\ parseCall = NoCall
  /\ \E csvContent \in CsvContents :
        parseCall' = [op |-> "parseCSVContent", csvContent |-> csvContent,
                      result |-> parseCSVContent(csvContent)]
  /\ UNCHANGED <<lineCall, fieldCall, gen, handler, wizard, background>>
Table(headers, cellRows) ==
  [headers |-> headers,
   rows |-> [r \in 1..Len(cellRows) |-> RowObject(headers, cellRows[r])]]

\* options = {}: comments and transaction unless false, no CREATE TABLE,
\* no insert mode, no batch size.
NoBatchSize == [type |-> "undefined"]
BatchSizeAll == [type |-> "string"]
DefaultOptions ==
  [batchSize |-> NoBatchSize, includeComments |-> TRUE,
   includeTransaction |-> TRUE, includeCreateTable |-> FALSE,
   insertMode |-> "normal"]

Config(operation, databaseType, csvData, options) ==
  [operation |-> operation, databaseName |-> <<"d">>, tableName |-> <<"t">>,
   databaseType |-> databaseType, fieldMappings |-> generateMapping(csvData),
   csvData |-> csvData, absent |-> {}, rowsIsArray |-> TRUE,
   options |-> options]

S_insert == ToLowerCase(S_INSERT)
S_update == ToLowerCase(S_UPDATE)
S_DELETE == <<"D", "E", "L", "E", "T", "E">>
S_MySQL == <<"M", "y", "S", "Q", "L">>
S_oracle == <<"o", "r", "a", "c", "l", "e">>
DatabaseTypes == supportedDatabases \cup {S_MySQL, S_oracle}
Operations == {S_INSERT, S_insert, S_UPDATE, S_DELETE, <<>>}

\* Tables of one column c holding 7, 1.5, yes, a text with a single quote,
\* or nothing; with those at the 80% threshold.
DataValues == { <<"7">>, <<"1", ".", "5">>, <<"y", "e", "s">>, <<"x", SQ>>, <<>> }
DataColumns ==
  SeqsUpTo(DataValues, MaxDataRows)
    \cup {<<x, x, x, x, y>> : x \in DataValues, y \in DataValues}
DataConfigs ==
  { Config(S_INSERT, db, Table(<<<<"c">>>>, [r \in 1..Len(col) |-> <<col[r]>>]),
           DefaultOptions) :
      db \in supportedDatabases, col \in DataColumns }

\* Tables of n rows holding 1, 2, ..., n, under every combination of the
\* options.
CountingTable(n) == Table(<<<<"c">>>>, [r \in 1..n |-> << NumToStr(r) >>])

BatchSizes == {NoBatchSize, BatchSizeAll, Num(0), Num(1), Num(2), Num(-1)}
OptionSets ==
  [batchSize : BatchSizes, includeComments : BOOLEAN,
   includeTransaction : BOOLEAN, includeCreateTable : BOOLEAN,
   insertMode : {"normal", "ignore", "update"}]
OptionConfigs ==
  { Config(op, db, CountingTable(n), options) :
      op \in {S_INSERT, S_insert}, db \in supportedDatabases \cup {S_MySQL},
      n \in 0..MaxGenRows, options \in OptionSets }

\* Configurations with keys missing, a rows value that is no array, and
\* every operation and database type.
ValidationConfigs ==
  { [Config(op, db, Table(<<<<"c">>>>, << << <<"7">> >> >>), DefaultOptions)
       EXCEPT !.databaseName = dbName, !.tableName = tName,
              !.absent = absent, !.rowsIsArray = isArray] :
      op \in Operations, db \in DatabaseTypes,
      dbName \in {<<>>, <<"d">>}, tName \in {<<>>, <<"t">>},
      absent \in SUBSET {"fieldMappings", "csvData"}, isArray \in BOOLEAN }

\* UPDATE tables with the headers id[WHERE] and name[SET], each cell empty
\* or not.
UpdateHeaders == << <<"i", "d">> \o M_WHERE, <<"n", "a", "m", "e">> \o M_SET >>
UpdateCells == { <<>>, <<"v">> }
UpdateConfigs ==
  { Config(op, db, Table(UpdateHeaders, cellRows),
           [DefaultOptions EXCEPT !.includeTransaction = tx]) :
      op \in {S_UPDATE, S_update}, db \in supportedDatabases, tx \in BOOLEAN,
      cellRows \in SeqsUpTo(UpdateCells \X UpdateCells, MaxUpdateRows) }

\* A table of one row more than the default batch size, with the batch size
\* "all" and with none.
LargeConfigs ==
  { Config(S_INSERT, S_mysql, CountingTable(defaultBatchSize + 1),
           [DefaultOptions EXCEPT !.batchSize = size]) :
      size \in {BatchSizeAll, NoBatchSize} }

\* The row {id: 1, name: O'Brien} for the mysql table users.
S_users == <<"u", "s", "e", "r", "s">>
S_OBrien == <<"O", SQ, "B", "r", "i", "e", "n">>
ExampleConfigs ==
  { [Config(S_INSERT, S_mysql,
            Table(<< <<"i", "d">>, <<"n", "a", "m", "e">> >>,
                  << << <<"1">>, S_OBrien >> >>),
            DefaultOptions)
       EXCEPT !.tableName = S_users] }

\* UPDATE tables whose rows differ: row k is {id[WHERE]: k, name[SET]: v}.
CountingUpdateConfigs ==
  { Config(S_UPDATE, S_mysql,
           Table(UpdateHeaders, [k \in 1..n |-> <<NumToStr(k), <<"v">> >>]),
           DefaultOptions) : n \in 1..MaxUpdateRows }

Configs ==
  ExampleConfigs \cup DataConfigs \cup OptionConfigs \cup ValidationConfigs \cup UpdateConfigs
    \cup LargeConfigs \cup CountingUpdateConfigs

\* generateSQL(config) up to the dispatch on the operation; the UPDATE path
\* and the path of an operation that is neither INSERT nor UPDATE run to
\* their end, the INSERT path enters the loop of generateInsertSQL.
GenerateSQL ==
  /\ gen.pc = "idle"
  /\ \E config \in Configs :
       LET verdict == validateConfig(config)
           syntax == SyntaxOf(ToLowerCase(config.databaseType))
           options == config.options
           sqlScript ==
             (IF options.includeComments THEN <<HeaderSegment(config)>> ELSE <<>>)
               \o (IF options.includeTransaction
                   THEN <<TransactionStartSegment(config)>> ELSE <<>>)
       IN
       IF ~verdict.ok
       THEN gen' = [pc |-> "thrown", config |-> config, error |-> verdict.error,
                    sqlScript |-> <<>>]
       ELSE IF syntax = NoSyntax
       THEN gen' = [pc |-> "thrown", config |-> config,
                    error |-> <<"Unsupported database type: ", config.databaseType>>,
                    sqlScript |-> <<>>]
       ELSE IF config.operation = S_INSERT
       THEN gen' = [pc |-> "insertLoop", config |-> config, syntax |-> syntax,
                    sqlScript |-> sqlScript,
                    batchSize |-> BatchSizeOf(options),
                    sql |-> IF options.includeCreateTable
                            THEN <<generateCreateTableSQL(config.tableName,
                                     config.fieldMappings, syntax)>>
                            ELSE <<>>,
                    recordCount |-> 0, batchCount |-> 0, i |-> 0]
       ELSE IF config.operation = S_UPDATE
       THEN LET result == generateUpdateSQL(config, syntax)
            IN  IF result.ok
                THEN gen' = [pc |-> "returned", config |-> config,
                             syntax |-> syntax,
                             result |-> FinishSQL(config, sqlScript, result.sql,
                                          result.recordCount, result.batchCount)]
                ELSE gen' = [pc |-> "thrown", config |-> config,
                             error |-> <<"SQL generation failed: ", result.error>>,
                             sqlScript |->
                               sqlScript \o (IF options.includeTransaction
                                             THEN <<RollbackSegment>> ELSE <<>>)]
       ELSE gen' = [pc |-> "returned", config |-> config, syntax |-> syntax,
                    result |-> FinishSQL(config, sqlScript, <<>>, 0, 0)]
  /\ UNCHANGED <<lineCall, parseCall, fieldCall, handler, wizard, background>>

\* One iteration of the loop of generateInsertSQL (lines 452-488).  With a
\* negative batch size i only decreases and the loop has no end; the model
\* follows it down to -MaxBackSteps.
InsertBatch ==
  /\ gen.pc = "insertLoop"
  /\ gen.i < Len(gen.config.csvData.rows)
  /\ gen.i > -MaxBackSteps
  /\ LET batch == Slice(gen.config.csvData.rows, gen.i, gen.i + gen.batchSize)
     IN  gen' = IF Len(batch) = 0
                THEN [gen EXCEPT !.i = @ + gen.batchSize]
                ELSE [gen EXCEPT
                        !.i = @ + gen.batchSize,
                        !.sql = Append(@, InsertStatement(gen.config, gen.syntax, batch)),
                        !.recordCount = @ + Len(batch),
                        !.batchCount = @ + 1]
  /\ UNCHANGED <<lineCall, parseCall, fieldCall, handler, wizard, background>>

\* The loop is over: generateInsertSQL returns and generateSQL finishes.
InsertReturn ==
  /\ gen.pc = "insertLoop"
  /\ gen.i >= Len(gen.config.csvData.rows)
  /\ gen' = [pc |-> "returned", config |-> gen.config, syntax |-> gen.syntax,
             result |-> FinishSQL(gen.config, gen.sqlScript, gen.sql,
                                  gen.recordCount, gen.batchCount)]
  /\ UNCHANGED <<lineCall, parseCall, fieldCall, handler, wizard, background>>

(***************************************************************************)
(* UpdateOperationHandler: the calls.  The handler keeps, next to its      *)
(* fields, the calls that changed its SET fields (calls) and the last call *)
(* made on it with its outcome (last).                                     *)
(***************************************************************************)
\* The handler after the constructor (lines 477-482).
NewHandler ==
  [tableName |-> <<>>, setFields |-> <<>>, whereConditions |-> <<>>,
   validationErrors |-> <<>>, calls |-> <<>>, last |-> NoCall]

TableNames == {StrV(<<"t">>), StrV(<<" ", "t", " ">>), StrV(<<" ">>), UndefinedV}
SetFieldNames == {StrV(<<"a">>), StrV(<<" ", "a">>), StrV(<<"b">>), StrV(<<>>)}
SetFieldValues ==
  { [value |-> StrV(<<"v", SQ>>), dataType |-> <<"s", "t", "r", "i", "n", "g">>],
    [value |-> NumV(1), dataType |-> <<"I", "n", "t", "e", "g", "e", "r">>],
    [value |-> UndefinedV, dataType |-> <<"s", "t", "r", "i", "n", "g">>] }
WhereFieldNames == {StrV(<<"a">>), StrV(<<" ">>)}
WhereOperators == { <<"=">>, <<"i", "n">>, <<"N", "O", "T", " ", "I", "N">>, <<"I", "S", " ", "N", "U", "L", "L">>, <<"B", "E", "T", "W", "E", "E", "N">> }
WhereValues ==
  { [value |-> StrV(<<"x", SQ>>), dataType |-> <<"s", "t", "r", "i", "n", "g">>],
    [value |-> ArrV(<<NumV(1), NumV(2)>>), dataType |-> <<"i", "n", "t", "e", "g", "e", "r">>],
    [value |-> UndefinedV, dataType |-> <<"s", "t", "r", "i", "n", "g">>] }
LogicalOperators == { <<"A", "N", "D">>, <<"o", "r">>, <<"X", "O", "R">> }

SetTableName ==
  \E name \in TableNames :
    /\ handler' =
         IF BadName(name)
         THEN [handler EXCEPT
                 !.last = [op |-> "setTableName", name |-> name, threw |-> TRUE,
                           error |-> "Table name is required and must be a non-empty string"]]
         ELSE [handler EXCEPT
                 !.tableName = Trim(name.v),
                 !.last = [op |-> "setTableName", name |-> name, threw |-> FALSE]]
    /\ UNCHANGED <<lineCall, parseCall, fieldCall, gen, wizard, background>>

AddSetField ==
  \E fieldName \in SetFieldNames, given \in SetFieldValues :
    LET call == [op |-> "addSetField", fieldName |-> fieldName,
                 value |-> given.value, dataType |-> given.dataType,
                 threw |-> BadName(fieldName)]
    IN  /\ Len(handler.calls) < MaxSetFieldCalls
        /\ handler' =
             IF BadName(fieldName)
             THEN [handler EXCEPT !.calls = Append(@, call), !.last = call]
             ELSE [handler EXCEPT
                     !.setFields = addSetField(@, fieldName, given.value,
                                               given.dataType),
                     !.calls = Append(@, call),
                     !.last = call]
        /\ UNCHANGED <<lineCall, parseCall, fieldCall, gen, wizard, background>>

RemoveSetField ==
  \E fieldName \in SetFieldNames :
    LET call == [op |-> "removeSetField", fieldName |-> fieldName,
                 threw |-> FALSE]
    IN  /\ Len(handler.calls) < MaxSetFieldCalls
        /\ handler' = [handler EXCEPT
                         !.setFields = removeSetField(@, fieldName),
                         !.calls = Append(@, call),
                         !.last = call]
        /\ UNCHANGED <<lineCall, parseCall, fieldCall, gen, wizard, background>>

ClearSetFields ==
  LET call == [op |-> "clearSetFields", threw |-> FALSE]
  IN  /\ Len(handler.calls) < MaxSetFieldCalls
      /\ handler' = [handler EXCEPT
                       !.setFields = <<>>,
                       !.calls = Append(@, call),
                       !.last = call]
      /\ UNCHANGED <<lineCall, parseCall, fieldCall, gen, wizard, background>>

AddWhereCondition ==
  \E fieldName \in WhereFieldNames, operator \in WhereOperators,
     given \in WhereValues, logicalOperator \in LogicalOperators :
    LET refused == WhereConditionRefused(fieldName, operator, logicalOperator)
        call == [op |-> "addWhereCondition", fieldName |-> fieldName,
                 operator |-> operator, value |-> given.value,
                 dataType |-> given.dataType,
                 logicalOperator |-> logicalOperator, threw |-> refused]
    IN  /\ Len(handler.whereConditions) < MaxWhereConditions
        /\ handler' =
             IF refused THEN [handler EXCEPT !.last = call]
             ELSE [handler EXCEPT
                     !.whereConditions =
                        Append(@, NewCondition(fieldName, operator, given.value,
                                               given.dataType, logicalOperator)),
                     !.last = call]
        /\ UNCHANGED <<lineCall, parseCall, fieldCall, gen, wizard, background>>

RemoveWhereCondition ==
  \E index \in 0..MaxWhereConditions :
    /\ handler' =
         [handler EXCEPT
            !.whereConditions =
               IF index < Len(@)
               THEN SubSeq(@, 1, index) \o SubSeq(@, index + 2, Len(@))
               ELSE @,
            !.last = [op |-> "removeWhereCondition", index |-> index,
                      threw |-> FALSE]]
    /\ UNCHANGED <<lineCall, parseCall, fieldCall, gen, wizard, background>>

ClearWhereConditions ==
  /\ handler' = [handler EXCEPT
                   !.whereConditions = <<>>,
                   !.last = [op |-> "clearWhereConditions", threw |-> FALSE]]
  /\ UNCHANGED <<lineCall, parseCall, fieldCall, gen, wizard, background>>

GenerateWhereClause ==
  /\ handler' = [handler EXCEPT
                   !.last = [op |-> "generateWhereClause", threw |-> FALSE,
                             result |-> generateWhereClause(
                                          handler.whereConditions)]]
  /\ UNCHANGED <<lineCall, parseCall, fieldCall, gen, wizard, background>>

Validate ==
  LET errors == validate(handler.tableName, handler.setFields,
                         handler.whereConditions)
  IN  /\ handler' = [handler EXCEPT
                       !.validationErrors = errors,
                       !.last = [op |-> "validate", threw |-> FALSE,
                                 result |-> (Len(errors) = 0)]]
      /\ UNCHANGED <<lineCall, parseCall, fieldCall, gen, wizard, background>>

\* UpdateOperationHandler.generateSQL()
UpdateGenerateSQL ==
  LET errors == validate(handler.tableName, handler.setFields,
                         handler.whereConditions)
  IN  /\ handler' =
           [handler EXCEPT
              !.validationErrors = errors,
              !.last =
                 IF Len(errors) # 0
                 THEN [op |-> "generateSQL", threw |-> TRUE,
                       error |-> <<"Validation failed: ", errors>>]
                 ELSE [op |-> "generateSQL", threw |-> FALSE,
                       result |-> UpdateStatement(handler.tableName,
                                                  handler.setFields,
                                                  handler.whereConditions)]]
      /\ UNCHANGED <<lineCall, parseCall, fieldCall, gen, wizard, background>>

Reset ==
  LET call == [op |-> "reset", threw |-> FALSE]
  IN  /\ Len(handler.calls) < MaxSetFieldCalls
      /\ handler' = [NewHandler EXCEPT
                       !.calls = Append(handler.calls, call),
                       !.last = call]
      /\ UNCHANGED <<lineCall, parseCall, fieldCall, gen, wizard, background>>

(***************************************************************************)
(* EnhancedSQLGenerator, the wizard of the popup.  Of appState the model   *)
(* keeps what the handlers test: whether a value is there, the operation   *)
(* mode and the number of rows.  A file is "none" (null), "file" (a File)  *)
(* or "object" (the {} a File becomes when the state is saved and read     *)
(* back).  One validation is followed at a time.                           *)
(***************************************************************************)
\* this.maxStep of the constructor.
maxStep == 6

\* null, and what is there.
Absent == [present |-> FALSE]
Present(value) == [present |-> TRUE, value |-> value]

\* this.appState of the constructor (lines 592-611).
NewAppState ==
  [databaseName |-> "", operationMode |-> "", templateDownloaded |-> FALSE,
   uploadedFile |-> "none", csvData |-> Absent, fieldMappings |-> "none",
   validationResults |-> Absent]

\* The steps whose block has an element: the keys of stepIds.
StepIds == 1..6

\* showStep(step): the blocks up to step are shown, the others up to maxStep
\* hidden, and currentStep is set.
showStep(w, step) ==
  [w EXCEPT
     !.visible = (@ \ (1..w.maxStep)) \cup {i \in StepIds : i <= w.maxStep /\ i <= step},
     !.currentStep = step]

\* hideStepsAfter(step)
hideStepsAfter(w, step) ==
  [w EXCEPT !.visible = @ \ {i \in StepIds : step < i /\ i <= w.maxStep}]

\* saveState(): the state as storage keeps it; a File is kept as {}.
saveState(w) ==
  [w EXCEPT
     !.saved = Present([w.appState EXCEPT
                          !.uploadedFile =
                             IF @ = "none" THEN "none" ELSE "object"])]

\* The wizard after the constructor and initialize(): step 1 shown, and the
\* callback of loadSavedState still to come.
Constructed(saved) ==
  showStep([currentStep |-> 1, maxStep |-> maxStep, appState |-> NewAppState,
            visible |-> {}, reading |-> "none", timer |-> "none",
            loading |-> TRUE, saved |-> saved, last |-> "constructor"], 1)
NewWizard == Constructed(Absent)

\* The popup is closed and opened again: a new EnhancedSQLGenerator.
Reopen ==
  /\ wizard' = Constructed(wizard.saved)
  /\ UNCHANGED <<lineCall, parseCall, fieldCall, gen, handler, background>>

\* The callback of loadSavedState (lines 1848-1856), with restoreUIState.
LoadSavedState ==
  /\ wizard.loading
  /\ wizard' =
       IF ~wizard.saved.present
       THEN [wizard EXCEPT !.loading = FALSE, !.last = "loadSavedState"]
       ELSE LET appState == wizard.saved.value
                step == IF appState.uploadedFile # "none" THEN 5
                        ELSE IF appState.templateDownloaded THEN 4
                        ELSE IF appState.operationMode # "" THEN 3
                        ELSE IF appState.databaseName # "" THEN 2
                        ELSE 1
            IN  showStep([wizard EXCEPT !.appState = appState,
                                        !.loading = FALSE,
                                        !.last = "loadSavedState"], step)
  /\ UNCHANGED <<lineCall, parseCall, fieldCall, gen, handler, background>>

HandleDatabaseNameInput ==
  \E value \in {"", "db"} :
    /\ wizard' =
         LET w == [wizard EXCEPT !.appState.databaseName = value,
                                 !.last = "handleDatabaseNameInput"]
         IN  saveState(IF value # "" THEN showStep(w, 2)
                       ELSE hideStepsAfter(w, 1))
    /\ UNCHANGED <<lineCall, parseCall, fieldCall, gen, handler, background>>

HandleModeSelection ==
  \E value \in {"INSERT", "UPDATE"} :
    /\ wizard' =
         saveState(hideStepsAfter(
           showStep([wizard EXCEPT !.appState.operationMode = value,
                                   !.last = "handleModeSelection"], 3), 3))
    /\ UNCHANGED <<lineCall, parseCall, fieldCall, gen, handler, background>>

DownloadTemplate ==
  /\ wizard' =
       saveState(showStep([wizard EXCEPT !.appState.templateDownloaded = TRUE,
                                         !.last = "downloadTemplate"], 4))
  /\ UNCHANGED <<lineCall, parseCall, fieldCall, gen, handler, background>>

\* handleFileSelect(file): a file that is no .csv or is too large is refused.
HandleFileSelect ==
  \E file \in {"csv", "notCsv", "tooLarge"} :
    /\ wizard' =
         IF file = "csv"
         THEN [wizard EXCEPT !.appState.uploadedFile = "file",
                             !.last = "handleFileSelect"]
         ELSE [wizard EXCEPT !.last = "handleFileSelect"]
    /\ UNCHANGED <<lineCall, parseCall, fieldCall, gen, handler, background>>

\* removeFile() as a whole; restartProcess calls it too.
removeFile(w) ==
  hideStepsAfter([w EXCEPT !.appState.uploadedFile = "none",
                           !.appState.csvData = Absent,
                           !.appState.validationResults = Absent], 4)
RemoveFile ==
  /\ wizard' = [removeFile(wizard) EXCEPT !.last = "removeFile"]
  /\ UNCHANGED <<lineCall, parseCall, fieldCall, gen, handler, background>>

\* validateFile() up to its await: without a file it shows an error, and
\* with one it starts reading.
ValidateFile ==
  /\ wizard.reading = "none"
  /\ wizard.timer = "none"
  /\ wizard' = [wizard EXCEPT
                  !.reading = wizard.appState.uploadedFile,
                  !.last = "validateFile"]
  /\ UNCHANGED <<lineCall, parseCall, fieldCall, gen, handler, background>>

\* validateFile() after its await (lines 872-913).  The file could not be
\* read (as {} never can), or its text could not be parsed, or was parsed
\* into a table of no rows, or one that validateCSVStructure refuses, or one
\* it accepts.
ValidateFileRead ==
  /\ wizard.reading # "none"
  /\ \E content \in IF wizard.reading = "object" THEN {"unreadable"}
                     ELSE {"unreadable", "unparsable", "noRows", "refused",
                           "accepted"} :
       wizard' =
         IF content \in {"unreadable", "unparsable"}
         THEN [wizard EXCEPT !.reading = "none", !.last = "validateFile"]
         ELSE [wizard EXCEPT
                 !.reading = "none",
                 !.appState.fieldMappings = "mappings",
                 !.appState.csvData =
                    Present([totalRows |-> IF content = "noRows" THEN 0 ELSE 1]),
                 !.appState.validationResults =
                    Present([isValid |-> content = "accepted"]),
                 !.timer = IF content = "accepted" THEN "valid" ELSE "invalid",
                 !.last = "validateFile"]
  /\ UNCHANGED <<lineCall, parseCall, fieldCall, gen, handler, background>>

\* The setTimeout callback of validateFile (lines 895-912).  populatePreview
\* reads this.appState.uploadedFile.name, a TypeError when the file has been
\* removed since; showStep(5) has been called by then.
ValidationTimer ==
  /\ wizard.timer # "none"
  /\ wizard' =
       LET w == [wizard EXCEPT !.timer = "none", !.last = "validationTimer"]
       IN  IF wizard.timer = "invalid" THEN w
           ELSE IF w.appState.uploadedFile = "none" THEN showStep(w, 5)
           ELSE showStep(showStep(w, 5), 6)
  /\ UNCHANGED <<lineCall, parseCall, fieldCall, gen, handler, background>>

\* EnhancedSQLGenerator.generateSQL(): the checks of lines 1445-1461, then
\* validateMappings and SQLGenerator.generateSQL, which accept the table or
\* do not; only a generated script leads to showStep(7).
WizardGenerateSQL ==
  \E mappingsValid \in BOOLEAN, generated \in BOOLEAN :
    /\ wizard' =
         LET a == wizard.appState
             w == [wizard EXCEPT !.last = "generateSQL"]
         IN  IF \/ ~a.csvData.present \/ a.fieldMappings = "none"
                \/ a.databaseName = "" \/ a.operationMode = ""
             THEN w
             ELSE IF a.csvData.value.totalRows = 0 THEN w
             ELSE IF mappingsValid /\ generated THEN showStep(w, 7)
             ELSE w
    /\ UNCHANGED <<lineCall, parseCall, fieldCall, gen, handler, background>>

\* restartProcess(): the new appState has no fieldMappings, and clearState
\* removes the saved state.
RestartProcess ==
  /\ wizard' =
       [showStep(removeFile([wizard EXCEPT !.appState = NewAppState]), 1)
          EXCEPT !.saved = Absent, !.last = "restartProcess"]
  /\ UNCHANGED <<lineCall, parseCall, fieldCall, gen, handler, background>>

(***************************************************************************)
(* BackgroundService.  chrome.storage.local is a record of its keys, each  *)
(* Absent or Present; a handler of a message is a task that runs from one  *)
(* await to the next in one step, and tasks interleave at their awaits.    *)
(***************************************************************************)
\* maxHistoryItems of the default settings, and the fallback of saveToHistory.
maxHistoryItems == 50

\* The storage after handleInstallation (lines 42-52).
InstalledStorage ==
  [settings |-> Present([maxHistoryItems |-> maxHistoryItems]),
   sqlHistory |-> Present(<<>>),
   backup |-> Absent]
EmptyStorage == [settings |-> Absent, sqlHistory |-> Absent, backup |-> Absent]

NewBackground == [storage |-> InstalledStorage, tasks |-> <<>>]

\* chrome.storage.local.set(items): the keys given replace those stored.
StorageSet(storage, items) ==
  [key \in DOMAIN storage |->
     IF key \in DOMAIN items /\ items[key].present THEN items[key]
     ELSE storage[key]]

\* The payloads of IMPORT_DATA: an export of another installation, with and
\* without settings, and a payload without data.
ImportPayloads ==
  { Present([EmptyStorage EXCEPT !.sqlHistory = Present(<< <<"imported", 0>> >>)]),
    Present([EmptyStorage EXCEPT
               !.sqlHistory = Present(<< <<"imported", 0>> >>),
               !.settings = Present([maxHistoryItems |-> 1])]),
    Absent }

\* A task: the message it handles, where it stands, and its local variables.
Task(type, pc, payload) ==
  [type |-> type, pc |-> pc, payload |-> payload, history |-> <<>>,
   currentData |-> EmptyStorage, threw |-> FALSE]
Tasks == background.tasks
TaskStep(t, task, storage) ==
  background' = [storage |-> storage, tasks |-> [Tasks EXCEPT ![t] = task]]

\* handleMessage for SAVE_TO_HISTORY: saveToHistory starts, up to the await
\* of chrome.storage.local.get.  The item saved is named after the message.
ReceiveSaveToHistory ==
  /\ Len(Tasks) < MaxMessages
  /\ background' =
       [background EXCEPT
          !.tasks = Append(@, Task("SAVE_TO_HISTORY", "getHistory",
                                   <<"item", Len(Tasks) + 1>>))]
  /\ UNCHANGED <<lineCall, parseCall, fieldCall, gen, handler, wizard>>

\* The get has answered: history = result.sqlHistory || [], and the item is
\* put in front; getSettings is awaited.
SaveGetHistory ==
  \E t \in 1..Len(Tasks) :
    /\ Tasks[t].pc = "getHistory"
    /\ TaskStep(t,
         [Tasks[t] EXCEPT
            !.history = <<Tasks[t].payload>>
                          \o (IF background.storage.sqlHistory.present
                              THEN background.storage.sqlHistory.value
                              ELSE <<>>),
            !.pc = "getSettings"],
         background.storage)
    /\ UNCHANGED <<lineCall, parseCall, fieldCall, gen, handler, wizard>>

\* getSettings has answered: the history is cut to maxItems, and the set is
\* awaited.
SaveGetSettings ==
  \E t \in 1..Len(Tasks) :
    /\ Tasks[t].pc = "getSettings"
    /\ LET maxItems == IF background.storage.settings.present
                       THEN background.storage.settings.value.maxHistoryItems
                       ELSE maxHistoryItems
           history == Tasks[t].history
       IN  TaskStep(t,
             [Tasks[t] EXCEPT
                !.history = IF Len(history) > maxItems
                            THEN SubSeq(history, 1, maxItems) ELSE history,
                !.pc = "setHistory"],
             background.storage)
    /\ UNCHANGED <<lineCall, parseCall, fieldCall, gen, handler, wizard>>

\* chrome.storage.local.set({ sqlHistory: history }), and the response.
SaveSetHistory ==
  \E t \in 1..Len(Tasks) :
    /\ Tasks[t].pc = "setHistory"
    /\ TaskStep(t, [Tasks[t] EXCEPT !.pc = "done"],
                [background.storage EXCEPT
                   !.sqlHistory = Present(Tasks[t].history)])
    /\ UNCHANGED <<lineCall, parseCall, fieldCall, gen, handler, wizard>>

\* handleMessage for CLEAR_HISTORY: clearHistory.
ClearHistory ==
  /\ Len(Tasks) < MaxMessages
  /\ background' =
       [storage |-> [background.storage EXCEPT !.sqlHistory = Present(<<>>)],
        tasks |-> Append(Tasks, Task("CLEAR_HISTORY", "done", Absent))]
  /\ UNCHANGED <<lineCall, parseCall, fieldCall, gen, handler, wizard>>

\* handleMessage for IMPORT_DATA: importData starts; a payload without data
\* throws, another awaits chrome.storage.local.get(null).
ReceiveImportData ==
  /\ Len(Tasks) < MaxMessages
  /\ \E payload \in ImportPayloads :
       background' =
         [background EXCEPT
            !.tasks = Append(@,
               IF payload.present THEN Task("IMPORT_DATA", "getAll", payload)
               ELSE [Task("IMPORT_DATA", "done", payload)
                       EXCEPT !.threw = TRUE])]
  /\ UNCHANGED <<lineCall, parseCall, fieldCall, gen, handler, wizard>>

\* The steps of importData, one per await (lines 461-472): read everything,
\* store it under backup, clear the storage, store the imported data.
ImportData ==
  \E t \in 1..Len(Tasks) :
    /\ Tasks[t].type = "IMPORT_DATA"
    /\ Tasks[t].pc # "done"
    /\ LET task == Tasks[t]
           storage == background.storage
       IN  CASE task.pc = "getAll" ->
                  TaskStep(t, [task EXCEPT !.currentData = storage,
                                           !.pc = "setBackup"], storage)
             [] task.pc = "setBackup" ->
                  TaskStep(t, [task EXCEPT !.pc = "clear"],
                           [storage EXCEPT
                              !.backup = Present(task.currentData)])
             [] task.pc = "clear" ->
                  TaskStep(t, [task EXCEPT !.pc = "setData"], EmptyStorage)
             [] task.pc = "setData" ->
                  TaskStep(t, [task EXCEPT !.pc = "done"],
                           StorageSet(storage, task.payload.value))
    /\ UNCHANGED <<lineCall, parseCall, fieldCall, gen, handler, wizard>>

Init ==
  /\ lineCall = NoCall
  /\ parseCall = NoCall
  /\ fieldCall = NoCall
  /\ gen = [pc |-> "idle"]
  /\ handler = NewHandler
  /\ wizard = NewWizard
  /\ background = NewBackground

NextLine == ParseCSVLine \/ DetectDelimiter \/ CountDelimiterOccurrences
SpecLine == Init /\ [][NextLine]_vars

NextField == AnalyzeField
SpecField == Init /\ [][NextField]_vars

NextSanitize == SanitizeFieldName
SpecSanitize == Init /\ [][NextSanitize]_vars

NextMappings == ValidateMappings
NextContent == ParseCSVContent
SpecContent == Init /\ [][NextContent]_vars

SpecMappings == Init /\ [][NextMappings]_vars

NextGen == GenerateSQL \/ InsertBatch \/ InsertReturn
SpecGen == Init /\ [][NextGen]_vars

NextBOM == ParseCSVTextWithBOM
SpecBOM == Init /\ [][NextBOM]_vars

NextParse == ParseCSVText
SpecParse == Init /\ [][NextParse]_vars

NextSetFields == AddSetField \/ RemoveSetField \/ ClearSetFields
SpecSetFields == Init /\ [][NextSetFields]_vars

NextWhere ==
  \/ AddWhereCondition
  \/ RemoveWhereCondition
  \/ ClearWhereConditions
  \/ GenerateWhereClause
SpecWhere == Init /\ [][NextWhere]_vars

NextUpdate ==
  SetTableName \/ AddSetField \/ Validate \/ UpdateGenerateSQL \/ Reset
SpecUpdate == Init /\ [][NextUpdate]_vars

NextWizard ==
  \/ Reopen
  \/ LoadSavedState
  \/ HandleDatabaseNameInput
  \/ HandleModeSelection
  \/ DownloadTemplate
  \/ HandleFileSelect
  \/ RemoveFile
  \/ ValidateFile
  \/ ValidateFileRead
  \/ ValidationTimer
  \/ WizardGenerateSQL
  \/ RestartProcess
SpecWizard == Init /\ [][NextWizard]_vars

NextBackground ==
  \/ ReceiveSaveToHistory
  \/ SaveGetHistory
  \/ SaveGetSettings
  \/ SaveSetHistory
  \/ ClearHistory
  \/ ReceiveImportData
  \/ ImportData
SpecBackground == Init /\ [][NextBackground]_vars


(***************************************************************************)
(* Claims about CSVParser.                                                 *)
(***************************************************************************)
IsQuote(c) == c = DQ \/ c = SQ
HasQuote(s) == \E i \in 1..Len(s) : IsQuote(s[i])
Has(s, c) == \E i \in 1..Len(s) : s[i] = c
Fld(s, trimValues) == IF trimValues THEN Trim(s) ELSE s

\* The pieces of s between the occurrences of c.
RECURSIVE Pieces(_, _)
Pieces(s, c) ==
  LET hits == {i \in 1..Len(s) : s[i] = c}
  IN  IF hits = {} THEN <<s>>
      ELSE Append(Pieces(SubSeq(s, 1, SetMax(hits) - 1), c),
                  SubSeq(s, SetMax(hits) + 1, Len(s)))

ParsedOk == parseCall.op = "parseCSVText" /\ parseCall.result.ok

\* C4: in every table parseCSVText returns, each row has exactly as many
\* fields as there are headers (shorter rows padded, longer rows truncated).
C4_RowLengthEqualsHeaderCount ==
  ParsedOk =>
    \A r \in 1..Len(parseCall.result.rows) :
      Len(parseCall.result.rows[r]) = Len(parseCall.result.headers)

\* C5: parseCSVLine is a quote-aware tokenizer.  (1) Without any quote
\* character the fields are the pieces between the delimiters.  (2) A line
\* that is one quoted span, q body q with no q in body, is the single field
\* body: a delimiter inside the span does not end the field, a quote of the
\* other kind is literal, and the enclosing quotes are not part of the field.
\* (3) A doubled quote inside an open span of the same kind, q x q q y q, is
\* the single field x q y.  (4) a,"b,c",d with delimiter ',' yields exactly
\* the three fields a / b,c / d.
C5_QuoteAwareTokenizer ==
  lineCall.op = "parseCSVLine" =>
    LET line == lineCall.line
        d == lineCall.delimiter
        tr == lineCall.trimValues
        n == Len(line)
        res == lineCall.result
        pieces == Pieces(line, d)
    IN  /\ ~HasQuote(line) =>
              res = [k \in 1..Len(pieces) |-> Fld(pieces[k], tr)]
        /\ (n >= 2 /\ IsQuote(line[1]) /\ line[n] = line[1]
              /\ ~Has(SubSeq(line, 2, n - 1), line[1])) =>
              res = <<Fld(SubSeq(line, 2, n - 1), tr)>>
        /\ \A k \in 2..(n - 2) :
              (IsQuote(line[1]) /\ line[n] = line[1]
                 /\ line[k] = line[1] /\ line[k + 1] = line[1]
                 /\ ~Has(SubSeq(line, 2, k - 1), line[1])
                 /\ ~Has(SubSeq(line, k + 2, n - 1), line[1])) =>
              res = <<Fld(SubSeq(line, 2, k - 1) \o <<line[1]>>
                            \o SubSeq(line, k + 2, n - 1), tr)>>
        /\ (line = <<"a", ",", DQ, "b", ",", "c", DQ, ",", "d">> /\ d = ",") =>
              res = << <<"a">>, <<"b", ",", "c">>, <<"d">> >>

\* C5 witness: a quoted span holding the delimiter has been tokenized into
\* one field that holds the delimiter.
C5_Witness ==
  /\ lineCall.op = "parseCSVLine"
  /\ lineCall.line = <<DQ, "a", lineCall.delimiter, DQ>>
  /\ lineCall.result = << <<"a", lineCall.delimiter>> >>

\* The number of occurrences of each candidate outside quoted spans.
CandidateCount(line, k) == countDelimiterOccurrences(line, delimiters[k])
TopCount(line) == SetMax({CandidateCount(line, k) : k \in 1..Len(delimiters)})
TopCandidates(line) ==
  {k \in 1..Len(delimiters) : CandidateCount(line, k) = TopCount(line)}

\* C6 as claimed: detectDelimiter returns the candidate with the strictly
\* highest count, and comma whenever the highest count is zero or is shared
\* by two or more candidates (also when two non-comma candidates tie).
C6_TieOrZeroGivesComma ==
  lineCall.op = "detectDelimiter" =>
    LET line == lineCall.line
    IN  IF TopCount(line) = 0 \/ Cardinality(TopCandidates(line)) > 1
        THEN lineCall.result = ","
        ELSE lineCall.result = delimiters[CHOOSE k \in TopCandidates(line) : TRUE]

\* C6 as amended: detectDelimiter returns, of the candidates with the highest
\* count outside quoted spans, the first in the order comma, semicolon, tab,
\* pipe; this is comma when the highest count is zero or comma is among the
\* tied candidates.
C6_FirstOfTheHighestWins ==
  lineCall.op = "detectDelimiter" =>
    lineCall.result = delimiters[SetMin(TopCandidates(lineCall.line))]

\* C6 witness: two non-comma candidates tie above comma and the earlier one
\* is returned.
C6_Witness ==
  /\ lineCall.op = "detectDelimiter"
  /\ TopCount(lineCall.line) > 0
  /\ TopCandidates(lineCall.line) = {2, 4}
  /\ lineCall.result = ";"

\* The data lines of a call, and the rows they should give: the tokenized
\* lines in order, without those skipped as empty, cut at maxRows.
CallLines ==
  LET all == SplitLines(removeBOM(parseCall.csvText.value))
  IN  IF parseCall.options.skipEmptyLines
      THEN SelectSeq(all, LAMBDA l : \E i \in 1..Len(l) : l[i] \notin WhiteSpace)
      ELSE all

ExpectedRows ==
  LET o == parseCall.options
      res == parseCall.result
      from == IF o.hasHeader THEN 2 ELSE 1
      tokens == [k \in 1..(Len(CallLines) - from + 1) |->
                   parseCSVLine(CallLines[k + from - 1], res.delimiter, o.trimValues)]
      kept == SelectSeq(tokens, LAMBDA t :
                ~o.skipEmptyLines \/ \E i \in 1..Len(t) : t[i] # <<>>)
      cut == IF Len(kept) > maxRows THEN maxRows ELSE Len(kept)
  IN  [k \in 1..cut |->
         [j \in 1..(IF Len(kept[k]) > res.columns THEN Len(kept[k]) ELSE res.columns) |->
            IF j <= Len(kept[k]) THEN kept[k][j] ELSE <<>>]]

\* C9: parseCSVText fails only when the text is empty or not a string, or
\* when no line is left after blank-line filtering; for every other text it
\* returns a table whose rows are the remaining lines, tokenized, in order.
C9_FailsOnlyOnEmptyInput ==
  parseCall.op = "parseCSVText" =>
    LET t == parseCall.csvText
    IN  IF ~t.isString \/ t.value = <<>> \/ Len(CallLines) = 0
        THEN ~parseCall.result.ok
        ELSE /\ parseCall.result.ok
             /\ Len(parseCall.result.headers) >= 1
             /\ parseCall.result.rows = ExpectedRows

\* C9 witness: a text that is not empty but has only blank lines has failed.
C9_Witness ==
  /\ parseCall.op = "parseCSVText"
  /\ parseCall.csvText.isString /\ Len(parseCall.csvText.value) >= 2
  /\ ~parseCall.result.ok
  /\ parseCall.result.error = "CSV file is empty"

\* C10: parseCSVText fails, returning no table, when the text exceeds
\* maxFileSize, whereas exceeding maxRows only truncates: the returned table
\* has at most maxRows rows.
C10_ByteCeilingFailsRowCeilingTruncates ==
  parseCall.op = "parseCSVText" =>
    /\ (parseCall.csvText.isString /\ Len(parseCall.csvText.value) > maxFileSize)
         => ~parseCall.result.ok
    /\ parseCall.result.ok => Len(parseCall.result.rows) <= maxRows


(***************************************************************************)
(* Claims about FieldMapper.                                               *)
(***************************************************************************)
\* The non-empty values of the analysed column, and how many of them match
\* the pattern of a type.
CallNonEmpty == SelectSeq(fieldCall.values, LAMBDA v : v # <<>>)
MatchCount(type) ==
  Cardinality({i \in 1..Len(CallNonEmpty) : PatternTest(type, Trim(CallNonEmpty[i]))})
TypeOrder == <<"integer", "decimal", "boolean", "datetime", "date", "email">>
Qualifying ==
  {k \in 1..6 : 10 * MatchCount(TypeOrder[k]) >= 8 * Len(CallNonEmpty)}

\* C7: analyzeField classifies a column as the first type, in the order
\* integer, decimal, boolean, datetime, date, email, whose pattern matches at
\* least 80% of the non-empty values, with the matching fraction as the
\* confidence; an all-digit column (also one of only 0 and 1) is integer with
\* confidence 1.0 and a column of e-mail addresses is email.
C7_FirstTypeReaching80Percent ==
  (fieldCall.op = "analyzeField" /\ Len(CallNonEmpty) > 0) =>
    LET res == fieldCall.result
    IN  /\ Qualifying # {} =>
              /\ res.jsType = TypeOrder[SetMin(Qualifying)]
              /\ res.confidence.num = MatchCount(res.jsType)
              /\ res.confidence.den = Len(CallNonEmpty)
        /\ Qualifying = {} => res.jsType = "string"
        /\ (\A i \in 1..Len(CallNonEmpty) :
               CallNonEmpty[i] \in {<<"1">>, <<"1", "2">>}) =>
              /\ res.jsType = "integer"
              /\ res.confidence.num = res.confidence.den
        /\ (\A i \in 1..Len(CallNonEmpty) :
               CallNonEmpty[i] = <<"a", "@", "b", ".", "c">>) =>
              res.jsType = "email"

\* C7 witness: a column whose values 1 all match both the integer and the
\* boolean pattern has been classified integer with confidence 1.0.
C7_Witness ==
  /\ fieldCall.op = "analyzeField"
  /\ fieldCall.values = << <<"1">>, <<"1">>, <<"1">> >>
  /\ fieldCall.result.jsType = "integer"
  /\ fieldCall.result.confidence = Ratio(3, 3)



(***************************************************************************)
(* Claims about SQLGenerator.                                              *)
(***************************************************************************)
GenRows == gen.config.csvData.rows
Segments(sql, kind) == SelectSeq(sql, LAMBDA segment : segment.kind = kind)

\* The value rows of the INSERT statements of a script, in order.
RECURSIVE EmittedValueRows(_)
EmittedValueRows(sql) ==
  IF sql = <<>> THEN <<>>
  ELSE (IF Head(sql).kind = "insert" THEN Head(sql).valueRows ELSE <<>>)
         \o EmittedValueRows(Tail(sql))

\* A row that has no non-empty [WHERE] cell or no non-empty [SET] cell.
RowIncomplete(row) ==
  \/ ~\E k \in 1..Len(row) : EndsWith(row[k][1], M_WHERE) /\ row[k][2] # <<>>
  \/ ~\E k \in 1..Len(row) : EndsWith(row[k][1], M_SET) /\ row[k][2] # <<>>

QuoteCount(s) == Cardinality({i \in 1..Len(s) : s[i] = SQ})
\* A literal wrapped in single quotes whose single quotes pair up.
BalancedLiteral(literal) ==
  /\ Len(literal) >= 2
  /\ literal[1] = SQ
  /\ literal[Len(literal)] = SQ
  /\ QuoteCount(literal) % 2 = 0

\* C2: in the script of an INSERT whose mappings were inferred from the
\* data, every value that holds a single quote appears as a literal wrapped
\* in single quotes with its quotes paired, whatever type its column was
\* given.
C2_QuotedValuesAreBalancedLiterals ==
  (/\ gen.pc = "returned"
   /\ gen.config.operation = S_INSERT
   /\ Len(EmittedValueRows(gen.result.sql)) = Len(GenRows))
  => \A r \in 1..Len(GenRows) : \A k \in 1..Len(gen.config.fieldMappings) :
        Has(GenRows[r][k][2], SQ)
          => BalancedLiteral(EmittedValueRows(gen.result.sql)[r][k])

\* C3: for every INSERT configuration that validateConfig accepts, the value
\* rows of all the INSERT statements of the returned script are as many as
\* the input rows, and so is metadata.recordCount.
C3_InsertEmitsEveryRow ==
  (/\ gen.pc = "returned"
   /\ validateConfig(gen.config).ok
   /\ ToUpperCase(gen.config.operation) = S_INSERT)
  => /\ Len(EmittedValueRows(gen.result.sql)) = Len(GenRows)
     /\ gen.result.metadata.recordCount = Len(GenRows)

\* A configuration generateSQL has to refuse: a required key missing, a
\* database type that is none of the four whatever its case, an operation
\* that is neither INSERT nor UPDATE whatever its case.
MustThrow(config) ==
  \/ config.operation = <<>> \/ config.databaseName = <<>>
  \/ config.tableName = <<>> \/ config.databaseType = <<>>
  \/ config.absent # {}
  \/ ToLowerCase(config.databaseType)
       \notin {S_mysql, S_postgresql, S_sqlite, S_sqlserver}
  \/ ToUpperCase(config.operation) \notin {S_INSERT, S_UPDATE}

\* C8: generateSQL throws before it builds any SQL when the database type is
\* unsupported, the operation is unsupported or a required key is missing
\* (names compared without regard to case, as validateConfig compares them);
\* a call that went past validation works with exactly one of the four
\* dialect descriptors, that of its database type.
C8_ValidationPrecedesGeneration ==
  gen.pc # "idle" =>
    /\ MustThrow(gen.config) => gen.pc = "thrown" /\ gen.sqlScript = <<>>
    /\ gen.pc \in {"insertLoop", "returned"} =>
         /\ Cardinality({d \in supportedDatabases : SyntaxOf(d) = gen.syntax}) = 1
         /\ gen.syntax = SyntaxOf(ToLowerCase(gen.config.databaseType))

\* A call with every key present and the database type oracle has thrown
\* with nothing built.
C8_Witness ==
  /\ gen.pc = "thrown"
  /\ gen.config.databaseType = S_oracle
  /\ gen.config.operation = S_INSERT
  /\ gen.config.absent = {}
  /\ gen.config.databaseName # <<>>
  /\ gen.config.tableName # <<>>
  /\ gen.error = <<"Unsupported database type: ", S_oracle>>
  /\ gen.sqlScript = <<>>

(***************************************************************************)
(* Claims about the byte-order mark.                                       *)
(***************************************************************************)
StartsWithBOM(t) ==
  \/ Len(t) >= 1 /\ t[1] = BOM
  \/ Len(t) >= 3 /\ SubSeq(t, 1, 3) = BOMBytes

\* C11 as stated: for every text and every option set, the text behind a
\* byte-order mark gives the outcome of the text alone, with the same
\* headers, rows and counts.
C11_MarkedTextParsesAlike ==
  parseCall.op = "parseCSVTextWithBOM" =>
    /\ parseCall.marked.ok = parseCall.plain.ok
    /\ parseCall.plain.ok =>
         /\ parseCall.marked.headers = parseCall.plain.headers
         /\ parseCall.marked.rows = parseCall.plain.rows
         /\ parseCall.marked.totalRows = parseCall.plain.totalRows
         /\ parseCall.marked.columns = parseCall.plain.columns

\* C11, amended: for every text that is not empty and does not itself begin
\* with a byte-order mark, and every option set, the text behind a mark of
\* either form gives exactly the result of the text alone.
C11_MarkedNonEmptyTextParsesAlike ==
  (/\ parseCall.op = "parseCSVTextWithBOM"
   /\ parseCall.text # <<>>
   /\ ~StartsWithBOM(parseCall.text))
  => parseCall.marked = parseCall.plain

\* A text of a header and a row behind the three-character mark has given
\* the table of the text alone.
C11_Witness ==
  /\ parseCall.op = "parseCSVTextWithBOM"
  /\ parseCall.mark = BOMBytes
  /\ parseCall.text = <<"a", ",", LF, "a">>
  /\ parseCall.plain.ok
  /\ Len(parseCall.plain.headers) = 2
  /\ Len(parseCall.plain.rows) = 1
  /\ parseCall.marked = parseCall.plain

(***************************************************************************)
(* Claims about the INSERT path.                                           *)
(***************************************************************************)
GenOptions == gen.config.options
InsertStatements == Segments(gen.result.sql, "insert")
CeilDiv(n, b) == (n + b - 1) \div b

\* The value row of an input row: its cells under the mapped keys, each
\* formatted under its mapping.
ValueRowOf(row) ==
  [k \in 1..Len(gen.config.fieldMappings) |->
     formatValue(RowGet(row, gen.config.fieldMappings[k].key),
                 gen.config.fieldMappings[k], gen.syntax)]

\* C12: with a positive integer batchSize b over n rows the INSERT path
\* returns ceil(n/b) INSERT statements, their value rows are the consecutive
\* slices of the input in order, each of b rows but for a possibly shorter
\* last one, and metadata.batchCount is ceil(n/b).
C12_BatchesAreConsecutiveSlices ==
  (/\ gen.pc = "returned"
   /\ gen.config.operation = S_INSERT
   /\ GenOptions.batchSize.type = "number"
   /\ GenOptions.batchSize.n >= 1)
  => LET b == GenOptions.batchSize.n
         n == Len(GenRows)
         statements == InsertStatements
     IN  /\ Len(statements) = CeilDiv(n, b)
         /\ gen.result.metadata.batchCount = CeilDiv(n, b)
         /\ \A j \in 1..Len(statements) :
              /\ Len(statements[j].valueRows)
                   = IF j < Len(statements) THEN b ELSE n - b * (j - 1)
              /\ \A q \in 1..Len(statements[j].valueRows) :
                   statements[j].valueRows[q] = ValueRowOf(GenRows[b * (j - 1) + q])

\* Five rows with batchSize 2 have given statements of 2, 2 and 1 rows.
C12_Witness ==
  /\ gen.pc = "returned"
  /\ gen.config.operation = S_INSERT
  /\ GenOptions.batchSize = Num(2)
  /\ Len(GenRows) = 5
  /\ [j \in 1..Len(InsertStatements) |-> Len(InsertStatements[j].valueRows)]
       = <<2, 2, 1>>
  /\ gen.result.metadata.batchCount = 3

\* C13: when options.batchSize is "all", or is no number of at least 1, the
\* INSERT path puts all the rows of a non-empty table into a single batch:
\* once the loop has run, one statement holds every row, and the result has
\* exactly one INSERT statement and batchCount 1.
C13_OneBatchWithoutBatchSize ==
  (/\ gen.pc \in {"insertLoop", "returned"}
   /\ gen.config.operation = S_INSERT
   /\ Len(GenRows) > 0
   /\ \/ GenOptions.batchSize.type # "number"
      \/ GenOptions.batchSize.n < 1)
  => /\ (gen.pc = "insertLoop" /\ gen.i # 0) =>
          gen.batchCount = 1 /\ gen.recordCount = Len(GenRows)
     /\ gen.pc = "returned" =>
          /\ Len(InsertStatements) = 1
          /\ gen.result.metadata.batchCount = 1

\* The ignore-insert keyword of a dialect.
IgnoreKeyword(databaseType) ==
  LET name == ToLowerCase(databaseType)
  IN  CASE name = S_mysql -> "INSERT IGNORE INTO"
        [] name = S_sqlite -> "INSERT OR IGNORE INTO"
        [] OTHER -> "INSERT INTO"

\* C14: for each of the four dialects every INSERT statement follows
\* insertMode: normal starts with INSERT INTO and carries no conflict clause,
\* ignore starts with the dialect's ignore-insert keyword, update ends with
\* the dialect's upsert clause, which lists every mapped column.
C14_InsertModeShapesEveryBatch ==
  (gen.pc = "returned" /\ gen.config.operation = S_INSERT)
  => \A j \in 1..Len(InsertStatements) :
       LET statement == InsertStatements[j]
           mode == GenOptions.insertMode
       IN  /\ mode = "normal" =>
                /\ statement.insertType = "INSERT INTO"
                /\ statement.onDuplicateKey = <<>>
                /\ statement.onConflict = Undefined
           /\ mode = "ignore" =>
                statement.insertType = IgnoreKeyword(gen.config.databaseType)
           /\ mode = "update" =>
                /\ Len(statement.onDuplicateKey) = Len(gen.config.fieldMappings)
                /\ \A k \in 1..Len(gen.config.fieldMappings) :
                     statement.onDuplicateKey[k]
                       = quoteIdentifier(gen.config.fieldMappings[k].sqlFieldName,
                                         gen.syntax)

\* s with each single quote doubled.
Doubled(s) ==
  LET RECURSIVE upTo(_)
      upTo(i) == IF i = 0 THEN <<>>
                 ELSE upTo(i - 1) \o (IF s[i] = SQ THEN <<SQ, SQ>> ELSE <<s[i]>>)
  IN  upTo(Len(s))

TruthWords == { <<"t", "r", "u", "e">>, <<"1">>, <<"y", "e", "s">>, <<"y">> }
TrueLiteral(databaseType) ==
  IF ToLowerCase(databaseType) \in {S_mysql, S_postgresql} THEN S_TRUE ELSE <<"1">>
FalseLiteral(databaseType) ==
  IF ToLowerCase(databaseType) \in {S_mysql, S_postgresql} THEN S_FALSE ELSE <<"0">>

Positions(sql, kinds) == {p \in 1..Len(sql) : sql[p].kind \in kinds}
BodyKinds == {"createTable", "insert", "update"}

\* The statement that starts a transaction in a dialect.
StartStatement(databaseType) ==
  LET name == ToLowerCase(databaseType)
  IN  CASE name = S_mysql -> "START TRANSACTION;"
        [] name = S_postgresql -> "BEGIN;"
        [] OTHER -> "BEGIN TRANSACTION;"

\* C16: with transaction wrapping enabled, the SQL of every returned result
\* has the dialect's transaction start before every body statement (CREATE
\* TABLE, INSERT, UPDATE) and a COMMIT after the last of them, and has no
\* ROLLBACK; when the generation of the body throws, the script ends with a
\* ROLLBACK and holds no COMMIT, and the error is thrown again.
C16_TransactionWrapsTheBody ==
  (gen.pc \in {"returned", "thrown"} /\ GenOptions.includeTransaction)
  => /\ gen.pc = "returned" =>
          LET sql == gen.result.sql
              starts == Positions(sql, {"transactionStart"})
              commits == Positions(sql, {"commit"})
          IN  /\ Cardinality(starts) = 1
              /\ Cardinality(commits) = 1
              /\ Positions(sql, {"rollback"}) = {}
              /\ \A p \in starts :
                   sql[p].text = StartStatement(gen.config.databaseType)
              /\ \A b \in Positions(sql, BodyKinds) :
                   /\ \A p \in starts : p < b
                   /\ \A c \in commits : b < c
     /\ gen.pc = "thrown" =>
          /\ Positions(gen.sqlScript, {"commit"}) = {}
          /\ validateConfig(gen.config).ok =>
               /\ gen.sqlScript # <<>>
               /\ gen.sqlScript[Len(gen.sqlScript)].kind = "rollback"
               /\ gen.error[1] = "SQL generation failed: "

\* An UPDATE in a transaction whose second row has no WHERE value has thrown
\* with the script ending in ROLLBACK.
C16_Witness ==
  /\ gen.pc = "thrown"
  /\ gen.config.operation = S_UPDATE
  /\ GenOptions.includeTransaction
  /\ validateConfig(gen.config).ok
  /\ Len(GenRows) = 2
  /\ ~RowIncomplete(GenRows[1])
  /\ GenRows[2][1][2] = <<>>
  /\ gen.sqlScript[Len(gen.sqlScript)] = RollbackSegment
  /\ Positions(gen.sqlScript, {"transactionStart"}) # {}

(***************************************************************************)
(* UpdateOperationHandler                                                  *)
(***************************************************************************)
\* A handler with a table name, at least one SET field, a value for every SET
\* field and no WHERE condition.
ConfiguredWithoutWhere ==
  /\ handler.tableName # <<>>
  /\ Len(handler.setFields) >= 1
  /\ \A k \in 1..Len(handler.setFields) :
       handler.setFields[k].value.t # "undefined"
  /\ handler.whereConditions = <<>>

\* C17: with a table name, at least one SET field with a value and no WHERE
\* condition, validate() returns true and generateSQL() returns the UPDATE
\* statement without a WHERE clause.
C17_MissingWhereIsOnlyAWarning ==
  ConfiguredWithoutWhere =>
    /\ handler.last.op = "validate" => handler.last.result
    /\ handler.last.op = "generateSQL" =>
         /\ ~handler.last.threw
         /\ handler.last.result =
              <<"U", "P", "D", "A", "T", "E", " ">> \o handler.tableName \o <<" ", "S", "E", "T", " ">>
                \o generateSetClause(handler.setFields) \o <<";">>

\* The calls of addSetField that stored a field under this name, by their
\* place among the calls made.
AddsOf(name) ==
  {k \in 1..Len(handler.calls) :
     /\ handler.calls[k].op = "addSetField"
     /\ ~handler.calls[k].threw
     /\ Trim(handler.calls[k].fieldName.v) = name}
\* name = value, for the value and the type handed to one call.
AssignmentOf(call) ==
  Trim(call.fieldName.v) \o <<" ", "=", " ">> \o formatValueForSQL(call.value, call.dataType)

\* C19: after any calls of addSetField, removeSetField and clearSetFields no
\* two SET fields have the same name, and the SET clause gives every name
\* present the value and the type of the last addSetField call for that name.
C19_LastSetFieldWins ==
  LET fields == handler.setFields
  IN  /\ \A i, j \in 1..Len(fields) : fields[i].name = fields[j].name => i = j
      /\ \A i \in 1..Len(fields) : AddsOf(fields[i].name) # {}
      /\ generateSetClause(fields) =
           Join([i \in 1..Len(fields) |->
                   AssignmentOf(handler.calls[SetMax(AddsOf(fields[i].name))])],
                <<",", " ">>)
\* A name was given two different values, and is present next to another.
C19_Witness ==
  /\ Len(handler.setFields) = 2
  /\ \E name \in {handler.setFields[k].name : k \in 1..2} :
       \E i, j \in AddsOf(name) :
         /\ i < j
         /\ handler.calls[i].value # handler.calls[j].value
         /\ handler.calls[i].fieldName # handler.calls[j].fieldName

\* The operators and the joins addWhereCondition is said to let through.
WhitelistedOperators ==
  { <<"=">>, <<"!", "=">>, <<"<", ">">>, <<"<">>, <<">">>, <<"<", "=">>, <<">", "=">>, <<"L", "I", "K", "E">>, <<"N", "O", "T", " ", "L", "I", "K", "E">>,
    <<"I", "N">>, <<"N", "O", "T", " ", "I", "N">>, <<"I", "S", " ", "N", "U", "L", "L">>, <<"I", "S", " ", "N", "O", "T", " ", "N", "U", "L", "L">> }
WhitelistedJoins == { <<"A", "N", "D">>, <<"O", "R">> }
\* A step that is a call of addWhereCondition.
AddWhereConditionStep ==
  handler' # handler /\ handler'.last.op = "addWhereCondition"
\* The call appended exactly one condition.
AppendedOne ==
  /\ ~handler'.last.threw
  /\ Len(handler'.whereConditions) = Len(handler.whereConditions) + 1
  /\ SubSeq(handler'.whereConditions, 1, Len(handler.whereConditions))
       = handler.whereConditions
  /\ handler'.setFields = handler.setFields
\* The call threw and left the WHERE conditions and the SET fields as they were.
ThrewAndLeft ==
  /\ handler'.last.threw
  /\ handler'.whereConditions = handler.whereConditions
  /\ handler'.setFields = handler.setFields

\* C18 as stated: addWhereCondition appends exactly one condition when the
\* operator, compared without regard to case, is in the whitelist and the join
\* (compared likewise) is AND or OR; otherwise it throws and leaves the WHERE conditions and the
\* SET fields unchanged.
C18_OperatorAndJoinDecide ==
  [][AddWhereConditionStep =>
       IF /\ ToUpperCase(handler'.last.operator) \in WhitelistedOperators
          /\ ToUpperCase(handler'.last.logicalOperator) \in WhitelistedJoins
       THEN AppendedOne ELSE ThrewAndLeft]_vars

\* C18, amended: addWhereCondition appends exactly one condition when the field
\* name is a string that is not blank and the operator and the join, both
\* compared without regard to case, are in their whitelists; otherwise it
\* throws and leaves the WHERE conditions and the SET fields unchanged.
C18_NameOperatorAndJoinDecide ==
  [][AddWhereConditionStep =>
       IF /\ handler'.last.fieldName.t = "string"
          /\ Trim(handler'.last.fieldName.v) # <<>>
          /\ ToUpperCase(handler'.last.operator) \in WhitelistedOperators
          /\ ToUpperCase(handler'.last.logicalOperator) \in WhitelistedJoins
       THEN AppendedOne ELSE ThrewAndLeft]_vars
\* A second condition was appended for an operator and a join in lower case.
C18_Witness ==
  /\ handler.last.op = "addWhereCondition"
  /\ ~handler.last.threw
  /\ handler.last.operator = <<"i", "n">>
  /\ handler.last.logicalOperator = <<"o", "r">>
  /\ Len(handler.whereConditions) = 2
  /\ handler.whereConditions[2].operator = <<"I", "N">>
  /\ handler.whereConditions[2].logicalOperator = <<"O", "R">>

\* The values of a condition, each formatted by the type of the condition,
\* with ", " between them.
RECURSIVE FormattedList(_, _)
FormattedList(elements, dataType) ==
  IF elements = <<>> THEN <<>>
  ELSE formatValueForSQL(Head(elements), dataType)
         \o (IF Len(elements) > 1 THEN <<",", " ">> ELSE <<>>)
         \o FormattedList(Tail(elements), dataType)
\* One condition as it is to be rendered.
Rendering(c) ==
  CASE c.operator \in {<<"I", "S", " ", "N", "U", "L", "L">>, <<"I", "S", " ", "N", "O", "T", " ", "N", "U", "L", "L">>} ->
         c.fieldName \o <<" ">> \o c.operator
    [] c.operator \in {<<"I", "N">>, <<"N", "O", "T", " ", "I", "N">>} /\ c.value.t = "array" ->
         c.fieldName \o <<" ">> \o c.operator
           \o <<" ", "(">> \o FormattedList(c.value.v, c.dataType) \o <<")">>
    [] c.operator \in {<<"I", "N">>, <<"N", "O", "T", " ", "I", "N">>} /\ c.value.t # "array" ->
         c.fieldName \o <<" ", "=", " ">> \o formatValueForSQL(c.value, c.dataType)
    [] OTHER ->
         c.fieldName \o <<" ">> \o c.operator \o <<" ">>
           \o formatValueForSQL(c.value, c.dataType)
\* The renderings of the conditions from the k-th on, each but the first of
\* the clause behind its join.
RECURSIVE RenderingsFrom(_, _)
RenderingsFrom(conditions, k) ==
  IF k > Len(conditions) THEN <<>>
  ELSE (IF k > 1 THEN <<" ">> \o conditions[k].logicalOperator \o <<" ">> ELSE <<>>)
         \o Rendering(conditions[k])
         \o RenderingsFrom(conditions, k + 1)

\* C20: generateWhereClause renders IN and NOT IN with an array value as
\* field OP (v1, v2, ...), every element formatted by the type of the
\* condition, IN and NOT IN with a value that is no array as field = value,
\* and IS NULL and IS NOT NULL with no value.
C20_WhereClauseRendering ==
  handler.last.op = "generateWhereClause" =>
    handler.last.result = RenderingsFrom(handler.whereConditions, 1)
\* A clause of an IN with an array and a NOT IN with a string.
C20_Witness ==
  /\ handler.last.op = "generateWhereClause"
  /\ Len(handler.whereConditions) = 2
  /\ handler.whereConditions[1].operator = <<"I", "N">>
  /\ handler.whereConditions[1].value = ArrV(<<NumV(1), NumV(2)>>)
  /\ handler.whereConditions[2].operator = <<"N", "O", "T", " ", "I", "N">>
  /\ handler.whereConditions[2].value = StrV(<<"x", SQ>>)
  /\ handler.whereConditions[2].logicalOperator = <<"O", "R">>
  /\ handler.last.result
       = <<"a", " ", "I", "N", " ", "(", "1", ",", " ", "2", ")", " ", "O", "R", " ", "a", " ", "=", " ", SQ, "x", SQ, SQ, SQ>>

(***************************************************************************)
(* FieldMapper.validateMappings                                            *)
(***************************************************************************)
\* The entries of the mappings of the last call.
CheckedEntries == fieldCall.fieldMappings.entries
SharedOrTooLong ==
  \/ \E i, j \in 1..Len(CheckedEntries) :
       /\ i # j
       /\ CheckedEntries[i].mapping.sqlFieldName
            = CheckedEntries[j].mapping.sqlFieldName
  \/ \E i \in 1..Len(CheckedEntries) :
       Len(CheckedEntries[i].mapping.sqlFieldName.value) > 64

\* C21: validateMappings never throws, and returns isValid = false exactly
\* when two mappings share an SQL field name or a name is longer than 64
\* characters; a low confidence adds a warning and never an error.
C21_ValidateMappingsNeverThrows ==
  fieldCall.op = "validateMappings" =>
    /\ ~fieldCall.result.threw
    /\ ~fieldCall.result.isValid <=> SharedOrTooLong

(***************************************************************************)
(* EnhancedSQLGenerator                                                    *)
(***************************************************************************)
\* C22: a newly constructed wizard is at step 1 of a workflow of 7 steps.
C22_StartsAtStepOneOfSeven ==
  wizard.last = "constructor" =>
    wizard.currentStep = 1 /\ wizard.maxStep = 7

\* C29: after any sequence of wizard events currentStep is within 1..maxStep.
C29_CurrentStepWithinWorkflow ==
  wizard.currentStep \in 1..wizard.maxStep

(***************************************************************************)
(* SQLGenerator: the UPDATE path                                           *)
(***************************************************************************)
\* The values of the non-empty cells of a row under the keys ending with a
\* marker, in the order of the keys.
CellsUnder(row, marker) ==
  LET hits == SelectSeq(row, LAMBDA kv : EndsWith(kv[1], marker) /\ kv[2] # <<>>)
  IN  [k \in 1..Len(hits) |-> hits[k][2]]

C24_BatchLoopAdvances ==
  [][(gen.pc = "insertLoop" /\ gen'.pc = "insertLoop") => gen'.i > gen.i]_vars

(***************************************************************************)
(* FieldMapper.sanitizeFieldName                                           *)
(***************************************************************************)
\* C25: for every header sanitizeFieldName returns a lower-case name of at
\* most 64 characters, of word characters and CJK characters only, without
\* two underscores in a row and without an underscore at either end.
C25_SanitizedNameShape ==
  fieldCall.op = "sanitizeFieldName" =>
    LET name == fieldCall.result
    IN  /\ Len(name) <= 64
        /\ \A i \in 1..Len(name) :
             /\ name[i] \in WordChars \cup CJKChars
             /\ name[i] \notin {UpperCase[k] : k \in 1..26}
        /\ \A i \in 1..(Len(name) - 1) : ~(name[i] = "_" /\ name[i + 1] = "_")
        /\ name # <<>> => (name[1] # "_" /\ name[Len(name)] # "_")

(***************************************************************************)
(* BackgroundService                                                       *)
(***************************************************************************)
AllTasksDone == \A t \in 1..Len(Tasks) : Tasks[t].pc = "done"
StoredHistory ==
  IF background.storage.sqlHistory.present
  THEN background.storage.sqlHistory.value ELSE <<>>

\* C26: when two SAVE_TO_HISTORY messages have been handled, however their
\* reads and writes of the storage interleave, both items are in sqlHistory
\* (the history limit is not reached).
C26_NoHistoryItemLost ==
  (/\ Len(Tasks) = 2
   /\ AllTasksDone
   /\ \A t \in 1..2 : Tasks[t].type = "SAVE_TO_HISTORY")
  => \A t \in 1..2 :
       \E k \in 1..Len(StoredHistory) : StoredHistory[k] = Tasks[t].payload

\* C28: after importData has completed successfully the storage holds a
\* backup of the data that was stored before the import, next to the
\* imported data.
C28_ImportKeepsBackup ==
  (/\ AllTasksDone
   /\ \E t \in 1..Len(Tasks) : Tasks[t].type = "IMPORT_DATA" /\ ~Tasks[t].threw)
  => /\ background.storage.backup.present
     /\ \E t \in 1..Len(Tasks) :
          /\ Tasks[t].type = "IMPORT_DATA"
          /\ ~Tasks[t].threw
          /\ background.storage.backup.value = Tasks[t].currentData

\* C27: after parseCSVContent the mapping stored under a header carries the
\* analysis of the values of a column of the returned table that has this
\* header.  fieldMappings[header] = ... keeps the last mapping written under
\* the header.
StoredMapping(fieldMappings, header) ==
  fieldMappings[CHOOSE k \in 1..Len(fieldMappings) :
                  /\ fieldMappings[k].key = header
                  /\ \A j \in (k + 1)..Len(fieldMappings) :
                        fieldMappings[j].key # header]
ParsedColumn(csvData, index) ==
  [r \in 1..Len(csvData.rows) |-> csvData.rows[r][index]]
InferredFrom(mapping, values) ==
  LET fieldAnalysis == analyzeField(values)
  IN  /\ mapping.sqlType = fieldAnalysis.sqlType
      /\ mapping.jsType = fieldAnalysis.jsType
      /\ mapping.confidence = fieldAnalysis.confidence
      /\ mapping.nullable = fieldAnalysis.hasNulls
C27_MappingFromOwnColumn ==
  (parseCall.op = "parseCSVContent" /\ parseCall.result.ok) =>
    LET csvData == parseCall.result
    IN  \A index \in 1..Len(csvData.headers) :
          \E own \in 1..Len(csvData.headers) :
            /\ csvData.headers[own] = csvData.headers[index]
            /\ InferredFrom(StoredMapping(parseCall.result.fieldMappings,
                                          csvData.headers[index]),
                            ParsedColumn(csvData, own))

\* C30: for every line and every candidate delimiter parseCSVLine returns
\* countDelimiterOccurrences(line, delimiter) + 1 fields.
C30_TokenizerAgreesWithCount ==
  lineCall.op = "parseCSVLine" =>
    Len(lineCall.result) =
      countDelimiterOccurrences(lineCall.line, lineCall.delimiter) + 1
\* a line split in two or more fields that also holds a delimiter in quotes
C30_Witness ==
  /\ lineCall.op = "parseCSVLine"
  /\ Len(lineCall.result) >= 2
  /\ Len(lineCall.result) <
       Cardinality({i \in 1..Len(lineCall.line) :
                      lineCall.line[i] = lineCall.delimiter}) + 1
  /\ Len(lineCall.result) =
       countDelimiterOccurrences(lineCall.line, lineCall.delimiter) + 1
====
